---- MODULE Spec2Model ----
(***************************************************************************)
(* Model of the AI streaming pipeline of the LjoveS Tools plugin:          *)
(*   - AIService (src/src/services/AIService.ts): provider lookup,         *)
(*     streamAI for the fetch-based providers (openai, deepseek) and for   *)
(*     the Gemini SDK stream;                                              *)
(*   - ChatManager (src/src/services/QuizManager.ts, lines 598-1777):      *)
(*     sendChatMessage / generateChatResponse / stopChatResponse and the   *)
(*     chat sessions;                                                      *)
(*   - the settings tab of src/main.ts (model selection, custom models).   *)
(*                                                                         *)
(* Scheduling follows the JavaScript event loop: a step of the model is    *)
(* one macrotask (a user event or an I/O completion) together with all the *)
(* promise continuations it triggers; an await on an already settled       *)
(* promise does not let another event in.                                  *)
(*                                                                         *)
(* Strings are sequences of tokens.  The tokens of a streamed HTTP body    *)
(* are the event prefix 'data: ', the newline, the '[DONE]' sentinel, the  *)
(* opening and the closing part of a JSON delta object, and text           *)
(* characters.                                                             *)
(***************************************************************************)
EXTENDS Integers, Sequences, FiniteSets, TLC

(***************************************************************************)
(* Bounds of the model                                                     *)
(***************************************************************************)
MaxReq == 2          \* streamAI calls per behaviour
MaxLines == 3        \* lines of a streamed HTTP body
MaxChunks == 2       \* chunks of a Gemini SDK stream
MaxSessions == 2     \* chat sessions
MaxCustom == 1       \* user-registered custom models

ReqIds == 1..MaxReq

(***************************************************************************)
(* Tokens and wire formats                                                 *)
(***************************************************************************)
DataPrefix == "data: "
Newline == "\\n"
DoneSentinel == "[DONE]"
JOpen == "{choices:[{delta:{content:"
JClose == "}}]}"
TextChars == {"a", "b"}

LineA == <<DataPrefix, JOpen, "a", JClose>>
LineB == <<DataPrefix, JOpen, "b", JClose>>
LineNoText == <<DataPrefix, JOpen, JClose>>
LineMalformed == <<DataPrefix, JOpen, "a">>
LineDone == <<DataPrefix, DoneSentinel>>
LineKinds == {LineA, LineB, LineNoText, LineMalformed, LineDone}

RECURSIVE JoinLines(_)
JoinLines(ls) ==
    IF ls = <<>> THEN <<>> ELSE Head(ls) \o <<Newline>> \o JoinLines(Tail(ls))

LineSeqs == UNION {[1..n -> LineKinds] : n \in 0..MaxLines}
Bodies == {JoinLines(ls) : ls \in LineSeqs}
\* bodies offered to a call made by the chat (the chat does not look at the
\* framing, only at the chunks)
ChatBodies == {JoinLines(<<LineA>>), JoinLines(<<LineA, LineB>>)}

\* Gemini SDK chunks: candidates[].content.parts[].text
TextPart(t) == [isText |-> TRUE, text |-> t]
Candidate(ps) == [hasParts |-> TRUE, parts |-> ps]
ChunkOf(cs) == [hasCandidates |-> TRUE, candidates |-> cs]
GChunkA == ChunkOf(<<Candidate(<<TextPart(<<"a">>)>>)>>)
GChunkB == ChunkOf(<<Candidate(<<TextPart(<<"b">>)>>)>>)
GChunkNoText == ChunkOf(<<Candidate(<<TextPart(<<>>)>>)>>)
GChunkNoCandidates == [hasCandidates |-> FALSE, candidates |-> <<>>]
GChunkKinds == {GChunkA, GChunkB, GChunkNoText, GChunkNoCandidates}
GStreams == UNION {[1..n -> GChunkKinds] : n \in 0..MaxChunks}
ChatGStreams == {<<GChunkA>>, <<GChunkA, GChunkB>>}

\* Gemini responses of every shape: candidates with and without a parts
\* array, parts with and without a string text
MaxCandidates == 2   \* candidates of a Gemini response
MaxParts == 2        \* parts of a candidate
NoTextPart == [isText |-> FALSE, text |-> <<>>]
NoPartsCandidate == [hasParts |-> FALSE, parts |-> <<>>]
PartKinds == {TextPart(<<"a">>), TextPart(<<"b">>), NoTextPart}
CandidateKinds ==
    {NoPartsCandidate}
    \cup {Candidate(ps) : ps \in UNION {[1..n -> PartKinds] : n \in 0..MaxParts}}
GeminiData ==
    {GChunkNoCandidates}
    \cup {ChunkOf(cs) : cs \in UNION {[1..n -> CandidateKinds] : n \in 0..MaxCandidates}}

Statuses == {200, 401, 503}

(***************************************************************************)
(* types.ts: the model catalogue                                           *)
(***************************************************************************)
AVAILABLE_MODELS ==
    << [id |-> "gemini-2.0-flash", provider |-> "gemini"],
       [id |-> "gpt-4.1-2025-04-14", provider |-> "openai"],
       [id |-> "deepseek-chat", provider |-> "deepseek"] >>
PROVIDERS == <<"gemini", "openai", "deepseek">>
CustomModelIds == {"custom-model"}

VARIABLES
    settings,                 \* LjoveSToolsSettings (shared by reference)
    calls,                    \* per streamAI call: its locals and its history
    gen,                      \* per chat request: locals of generateChatResponse
    chatSessions,             \* ChatManager.chatSessions: the message lists
    currentChatSession,       \* index into chatSessions
    isStreamingChat,
    isRequestInFlight,
    currentAbortController,   \* 0 = null, else the request whose controller it is
    chatInputDisabled,        \* chatInput.disabled
    sendButtonDisabled,       \* sendButton.disabled
    view,                     \* LjoveSToolsView: selectedFeature and what containerEl shows
    quiz,                     \* QuizManager: testData, isGenerating, await position
    explain,                  \* ExplainManager: response element, pending explainText calls
    recap,                    \* RecapManager: questions, index, feedback, loader
    paper,                    \* paper importer: paperAnalysis, await position
    vault,                    \* the files of the vault, by path
    dispatched                \* history: the AI requests handed to AIService

chatVars == <<gen, chatSessions, currentChatSession, isStreamingChat,
              isRequestInFlight, currentAbortController, chatInputDisabled,
              sendButtonDisabled>>
featureVars == <<view, quiz, explain, recap, paper, vault, dispatched>>
vars == <<settings, calls, gen, chatSessions, currentChatSession,
          isStreamingChat, isRequestInFlight, currentAbortController,
          chatInputDisabled, sendButtonDisabled, view, quiz, explain, recap,
          paper, vault, dispatched>>

(***************************************************************************)
(* Sequence helpers                                                        *)
(***************************************************************************)
RECURSIVE Concat(_)
Concat(ss) == IF ss = <<>> THEN <<>> ELSE Head(ss) \o Concat(Tail(ss))

IndexOf(s, x) ==
    IF \E i \in 1..Len(s) : s[i] = x
    THEN CHOOSE i \in 1..Len(s) : s[i] = x /\ \A j \in 1..(i - 1) : s[j] # x
    ELSE 0

\* String.prototype.split(sep) for a one-token separator
RECURSIVE split(_, _)
split(s, sep) ==
    LET i == IndexOf(s, sep) IN
    IF i = 0 THEN <<s>>
    ELSE <<SubSeq(s, 1, i - 1)>> \o split(SubSeq(s, i + 1, Len(s)), sep)

startsWith(line, prefix) == Len(line) >= 1 /\ line[1] = prefix

\* JSON.parse followed by parsed.choices?.[0]?.delta?.content
JSONparse(data) ==
    IF /\ Len(data) >= 2
       /\ data[1] = JOpen
       /\ data[Len(data)] = JClose
       /\ \A i \in 2..(Len(data) - 1) : data[i] \in TextChars
    THEN [ok |-> TRUE, content |-> SubSeq(data, 2, Len(data) - 1)]
    ELSE [ok |-> FALSE, content |-> <<>>]

(***************************************************************************)
(* AIService.getModelProvider / getCurrentApiKey                           *)
(***************************************************************************)
find(models, id) ==
    LET i == IF \E k \in 1..Len(models) : models[k].id = id
             THEN CHOOSE k \in 1..Len(models) :
                      models[k].id = id /\ \A j \in 1..(k - 1) : models[j].id # id
             ELSE 0
    IN IF i = 0 THEN [id |-> "", provider |-> ""] ELSE models[i]

getModelProvider(s) ==
    LET selectedModel == find(AVAILABLE_MODELS, s.model) IN
    IF selectedModel.provider # "" THEN selectedModel.provider ELSE "gemini"

getCurrentApiKey(s) ==
    LET selectedModel == find(AVAILABLE_MODELS, s.model)
        provider == IF selectedModel.provider # "" THEN selectedModel.provider
                    ELSE "gemini"
    IN CASE provider = "openai" -> s.openaiApiKey
         [] provider = "deepseek" -> s.deepseekApiKey
         [] OTHER -> s.geminiApiKey

\* the provider the selected model is registered under (settings tab,
\* "API Key Status": built-in and custom models)
selectedModelProvider(s) ==
    LET selectedModel == find(AVAILABLE_MODELS \o s.customModels, s.model) IN
    IF selectedModel.provider # "" THEN selectedModel.provider ELSE "gemini"

\* the endpoint chosen by the switch of streamAI
EndpointOf(provider) ==
    CASE provider = "openai" -> "api.openai.com"
      [] provider = "deepseek" -> "api.deepseek.com"
      [] OTHER -> "generativelanguage.googleapis.com"

ApiKeyOf(s, provider) ==
    CASE provider = "openai" -> s.openaiApiKey
      [] provider = "deepseek" -> s.deepseekApiKey
      [] OTHER -> s.geminiApiKey

(***************************************************************************)
(* AIService.streamAI: the locals of one call and its steps                *)
(***************************************************************************)
NoCall ==
    [pc |-> "idle", caller |-> "", provider |-> "", apiKey |-> "",
     model |-> "", modelProvider |-> "", endpoint |-> "",
     aborted |-> FALSE, abortedAt |-> -1, status |-> 0,
     body |-> <<>>, pos |-> 0, stream |-> <<>>, spos |-> 0,
     readIssued |-> FALSE, fullResponse |-> <<>>, emitted |-> <<>>,
     outcome |-> "none", error |-> ""]

\* a call that has returned or thrown, its locals dropped
ForgottenCall == [NoCall EXCEPT !.pc = "done", !.outcome = "forgotten"]

\* streamAI up to its first await: the switch on the provider
streamAI(c, caller, provider, apiKey, s) ==
    [c EXCEPT !.pc = IF provider \in {"openai", "deepseek"} THEN "fetch"
                     ELSE "connect",
              !.caller = caller,
              !.provider = provider,
              !.apiKey = apiKey,
              !.model = s.model,
              !.modelProvider = selectedModelProvider(s),
              !.endpoint = EndpointOf(provider)]

returned(c) == [c EXCEPT !.pc = "done", !.outcome = "returned"]
threw(c, err) == [c EXCEPT !.pc = "done", !.outcome = "threw", !.error = err]

\* fullResponse += content; onChunk(content)
emit(c, content) ==
    [c EXCEPT !.fullResponse = @ \o content, !.emitted = Append(@, content)]

\* body of the for loop over the lines of one decoded read
handleLine_SkipNothing(c, line) ==
    IF startsWith(line, DataPrefix)
    THEN LET data == Tail(line) IN
         IF JSONparse(data).ok /\ JSONparse(data).content # <<>>
         THEN emit(c, JSONparse(data).content)
         ELSE IF data # <<>> THEN emit(c, data) ELSE c
    ELSE c

handleLine(c, line) ==
    IF startsWith(line, DataPrefix)
    THEN LET data == Tail(line) IN
         IF data = <<DoneSentinel>> THEN c
         ELSE LET parsed == JSONparse(data) IN
              IF parsed.ok
              THEN IF parsed.content # <<>> THEN emit(c, parsed.content) ELSE c
              ELSE c      \* catch (e): skip malformed JSON chunks
    ELSE c

RECURSIVE processLines(_, _)
processLines(c, lines) ==
    IF lines = <<>> THEN c
    ELSE processLines(handleLine(c, Head(lines)), Tail(lines))

\* top of the while loop: the cancellation check, then reader.read()
loopTop(c) ==
    IF c.aborted THEN returned(c)
    ELSE [c EXCEPT !.pc = "read", !.readIssued = TRUE]

\* continuation of `await fetch(...)` with a response
fetchResolved_IgnoreStatus(c, status, body) ==
    loopTop([c EXCEPT !.status = status, !.body = body])

fetchResolved(c, status, body) ==
    IF status \notin 200..299
    THEN threw([c EXCEPT !.status = status], "API Error")
    ELSE loopTop([c EXCEPT !.status = status, !.body = body])

\* continuation of `await reader.read()` with {value, done: false}
readResolved(c, k) ==
    LET value == SubSeq(c.body, c.pos + 1, c.pos + k)
        lines == split(value, Newline)
    IN loopTop(processLines([c EXCEPT !.pos = @ + k], lines))

\* AIService.extractTextFromGeminiChunk
RECURSIVE partsText(_)
partsText(parts) ==
    IF parts = <<>> THEN <<>>
    ELSE (IF Head(parts).isText THEN Head(parts).text ELSE <<>>)
         \o partsText(Tail(parts))

\* takes the parts of the first candidate only
candidatesText_FirstOnly(cands) ==
    IF cands = <<>> THEN <<>>
    ELSE IF Head(cands).hasParts THEN partsText(Head(cands).parts) ELSE <<>>

RECURSIVE candidatesText(_)
candidatesText(cands) ==
    IF cands = <<>> THEN <<>>
    ELSE (IF Head(cands).hasParts THEN partsText(Head(cands).parts) ELSE <<>>)
         \o candidatesText(Tail(cands))

extractTextFromGeminiChunk(chunk) ==
    IF ~chunk.hasCandidates THEN <<>> ELSE candidatesText(chunk.candidates)

\* continuation of `await model.generateContentStream(parts)`; the SDK
\* rejects when the HTTP status is not a success
connectResolved(c, status, stream) ==
    IF status \notin 200..299
    THEN threw([c EXCEPT !.status = status], "API Error")
    ELSE [c EXCEPT !.status = status, !.stream = stream, !.pc = "iterate"]

\* one iteration of `for await (const chunk of result.stream)`
chunkArrived(c) ==
    LET chunk == c.stream[c.spos + 1]
        c1 == [c EXCEPT !.spos = @ + 1]
    IN IF c.aborted THEN returned(c1)
       ELSE LET textChunk == extractTextFromGeminiChunk(chunk) IN
            IF textChunk # <<>> THEN emit(c1, textChunk) ELSE c1

\* AbortController.abort() on the controller handed to the call
abortSignal(c) ==
    IF c.aborted THEN c
    ELSE [c EXCEPT !.aborted = TRUE, !.abortedAt = Len(c.emitted)]

InFlight(c) == c.pc \in {"fetch", "read", "connect", "iterate"}

\* an aborted fetch or body read rejects with an AbortError; the rejection
\* is a promise continuation of the task that aborted, so nothing else runs
\* before it
MicrotaskPending ==
    \E r \in ReqIds : calls[r].pc \in {"fetch", "read"} /\ calls[r].aborted

BodiesFor(c) == IF c.caller = "chat" THEN ChatBodies ELSE Bodies
\* sizes of the next read: any split of the remaining body; the reads of a
\* call made by the chat end at a line boundary
ReadSizesFor(c) ==
    {k \in 1..(Len(c.body) - c.pos) :
        c.caller = "chat" => c.body[c.pos + k] = Newline}
GStreamsFor(c) == IF c.caller = "chat" THEN ChatGStreams ELSE GStreams

(***************************************************************************)
(* ChatManager: messages, sessions and the locals of generateChatResponse  *)
(***************************************************************************)
TypingMessage == [id |-> "typing", req |-> 0]
UserMessage(r) == [id |-> "user", req |-> r]
AssistantMessage(r) == [id |-> "assistant", req |-> r]
ErrorMessage(r) == [id |-> "error", req |-> r]

NoGen == [pc |-> "idle", provider |-> "", apiKey |-> "", session |-> 0,
          isFirstChunk |-> TRUE, content |-> <<>>]

\* messages.filter(m => m.id !== 'typing')
filterTyping(messages) == SelectSeq(messages, LAMBDA m : m.id # "typing")
\* messages.filter(m => m.id !== assistantMessage.id)
filterAssistant(messages, r) ==
    SelectSeq(messages, LAMBDA m : m # AssistantMessage(r))

\* the onChunk closure of generateChatResponse, applied to the chunks that
\* one step of the stream emits
onChunks(sessions, cur, g, r, chunks) ==
    IF chunks = <<>> THEN [sessions |-> sessions, g |-> g]
    ELSE [sessions |->
             IF g.isFirstChunk
             THEN [sessions EXCEPT ![cur] =
                       Append(filterTyping(@), AssistantMessage(r))]
             ELSE sessions,
          g |-> [g EXCEPT !.isFirstChunk = FALSE,
                          !.content = @ \o Concat(chunks)]]

\* generateChatResponse after `await this.onStreamAI(...)` has returned
afterStream(sessions, cur, g, r, fullResponse) ==
    IF g.isFirstChunk /\ fullResponse # <<>>
    THEN [sessions |-> [sessions EXCEPT ![cur] =
                           Append(filterTyping(@), AssistantMessage(r))],
          g |-> [g EXCEPT !.content = fullResponse]]
    ELSE IF ~g.isFirstChunk
    THEN [sessions |-> sessions,
          g |-> [g EXCEPT !.content =
                     IF fullResponse # <<>> THEN fullResponse ELSE @]]
    ELSE [sessions |-> sessions, g |-> g]

\* the catch block of generateChatResponse
catchStream(sessions, cur, g, r) ==
    [sessions |-> [sessions EXCEPT ![cur] =
                      Append(filterAssistant(@, r), ErrorMessage(r))],
     g |-> g]

\* the finally block of generateChatResponse, then the finally block of
\* sendChatMessage
finallyStream(st, cur) ==
    [sessions |-> [st.sessions EXCEPT ![cur] = filterTyping(@)],
     g |-> [st.g EXCEPT !.pc = "done"]]

\* effect on the chat of one step of a call made by generateChatResponse:
\* c is the call before the step and c2 the call after it
ChatOnStream(r, c, c2) ==
    LET cur == currentChatSession
        chunks == SubSeq(c2.emitted, Len(c.emitted) + 1, Len(c2.emitted))
        st1 == onChunks(chatSessions, cur, gen[r], r, chunks)
    IN IF c2.outcome = "none"
       THEN /\ chatSessions' = st1.sessions
            /\ gen' = [gen EXCEPT ![r] = st1.g]
            /\ UNCHANGED <<currentChatSession, isStreamingChat,
                           isRequestInFlight, currentAbortController,
                           chatInputDisabled, sendButtonDisabled>>
       ELSE LET st2 == IF c2.outcome = "returned"
                       THEN afterStream(st1.sessions, cur, st1.g, r,
                                        c2.fullResponse)
                       ELSE catchStream(st1.sessions, cur, st1.g, r)
                st3 == finallyStream(st2, cur)
            IN /\ chatSessions' = st3.sessions
               /\ gen' = [gen EXCEPT ![r] = st3.g]
               /\ isRequestInFlight' = FALSE
               /\ isStreamingChat' = FALSE
               /\ currentAbortController' = 0
               /\ chatInputDisabled' = FALSE
               /\ sendButtonDisabled' = FALSE
               /\ UNCHANGED currentChatSession

\* the callbacks of a call belong to its caller
Deliver(r, c2) ==
    /\ calls' = [calls EXCEPT ![r] = c2]
    /\ IF calls[r].caller = "chat"
       THEN ChatOnStream(r, calls[r], c2)
       ELSE UNCHANGED chatVars
    /\ UNCHANGED <<settings, featureVars>>

(***************************************************************************)
(* I/O completions of a streamAI call                                      *)
(***************************************************************************)
FetchResolve(r) ==
    /\ ~MicrotaskPending
    /\ calls[r].pc = "fetch"
    /\ \E status \in Statuses :
       \E body \in (IF status = 200 THEN BodiesFor(calls[r]) ELSE {<<>>}) :
           Deliver(r, fetchResolved(calls[r], status, body))

ReadResolve(r) ==
    /\ ~MicrotaskPending
    /\ calls[r].pc = "read"
    /\ \E k \in ReadSizesFor(calls[r]) :
           Deliver(r, readResolved(calls[r], k))

ReadDone(r) ==
    /\ ~MicrotaskPending
    /\ calls[r].pc = "read"
    /\ calls[r].pos = Len(calls[r].body)
    /\ Deliver(r, returned(calls[r]))

\* the signal given to fetch was aborted: the pending fetch or read rejects
AbortRejects(r) ==
    /\ calls[r].pc \in {"fetch", "read"}
    /\ calls[r].aborted
    /\ Deliver(r, threw(calls[r], "AbortError"))

\* the transport fails
TransportError(r) ==
    /\ ~MicrotaskPending
    /\ InFlight(calls[r])
    /\ Deliver(r, threw(calls[r], "NetworkError"))

ConnectResolve(r) ==
    /\ ~MicrotaskPending
    /\ calls[r].pc = "connect"
    /\ \E status \in Statuses :
       \E stream \in (IF status = 200 THEN GStreamsFor(calls[r]) ELSE {<<>>}) :
           Deliver(r, connectResolved(calls[r], status, stream))

ChunkArrive(r) ==
    /\ ~MicrotaskPending
    /\ calls[r].pc = "iterate"
    /\ calls[r].spos < Len(calls[r].stream)
    /\ Deliver(r, chunkArrived(calls[r]))

StreamEnd(r) ==
    /\ ~MicrotaskPending
    /\ calls[r].pc = "iterate"
    /\ calls[r].spos = Len(calls[r].stream)
    /\ Deliver(r, returned(calls[r]))

StreamStep(r) ==
    \/ FetchResolve(r)
    \/ ReadResolve(r)
    \/ ReadDone(r)
    \/ AbortRejects(r)
    \/ TransportError(r)
    \/ ConnectResolve(r)
    \/ ChunkArrive(r)
    \/ StreamEnd(r)

\* the locals of the calls that have finished are dropped when a new call
\* is made
forget(cs) ==
    [q \in ReqIds |-> IF cs[q].pc = "done" THEN ForgottenCall ELSE cs[q]]

NextId(r) == \A q \in ReqIds : (q < r) <=> (calls[q].pc # "idle")

(***************************************************************************)
(* A caller of streamAI that holds the AbortController of its call         *)
(***************************************************************************)
CallStreamAI(r) ==
    /\ ~MicrotaskPending
    /\ NextId(r)
    /\ \A q \in ReqIds : ~InFlight(calls[q])
    /\ LET apiKey == getCurrentApiKey(settings)
           provider == getModelProvider(settings)
       IN calls' = [forget(calls) EXCEPT ![r] =
                        streamAI(NoCall, "direct", provider, apiKey, settings)]
    /\ UNCHANGED <<featureVars, settings, chatVars>>

AbortCall(r) ==
    /\ ~MicrotaskPending
    /\ calls[r].caller = "direct"
    /\ InFlight(calls[r])
    /\ ~calls[r].aborted
    /\ calls' = [calls EXCEPT ![r] = abortSignal(@)]
    /\ UNCHANGED <<featureVars, settings, chatVars>>

(***************************************************************************)
(* ChatManager: user events                                                *)
(***************************************************************************)
\* generateChatResponse from the typing indicator to the call of streamAI
GenStart(r, sessions, session, provider, apiKey) ==
    /\ chatSessions' = [sessions EXCEPT ![currentChatSession] =
                            Append(filterTyping(@), TypingMessage)]
    /\ currentAbortController' = r
    /\ isRequestInFlight' = TRUE
    /\ isStreamingChat' = TRUE
    /\ chatInputDisabled' = TRUE
    /\ sendButtonDisabled' = TRUE
    /\ gen' = [gen EXCEPT ![r] = [NoGen EXCEPT !.pc = "streaming",
                                               !.provider = provider,
                                               !.apiKey = apiKey,
                                               !.session = session]]
    /\ calls' = [forget(calls) EXCEPT ![r] =
                     streamAI(NoCall, "chat", provider, apiKey, settings)]
    /\ UNCHANGED <<featureVars, settings, currentChatSession>>

\* sendChatMessage (Enter in the input or click on Send), up to the first
\* await that waits for I/O: the read of a tagged note, or the request
sendChatMessage(r) ==
    /\ ~MicrotaskPending
    /\ NextId(r)
    /\ gen[r].pc = "idle"
    /\ ~chatInputDisabled \/ ~sendButtonDisabled
    /\ LET provider == getModelProvider(settings)
           apiKey == getCurrentApiKey(settings)
           pushed == [chatSessions EXCEPT ![currentChatSession] =
                          Append(@, UserMessage(r))]
       IN IF apiKey = ""
          THEN UNCHANGED vars
          ELSE \E tagged \in BOOLEAN :
               IF tagged
               THEN /\ chatSessions' = pushed
                    /\ gen' = [gen EXCEPT ![r] =
                                   [NoGen EXCEPT !.pc = "resolve",
                                                 !.provider = provider,
                                                 !.apiKey = apiKey,
                                                 !.session = currentChatSession]]
                    /\ chatInputDisabled' = isStreamingChat
                    /\ sendButtonDisabled' = isStreamingChat
                    /\ calls' = [calls EXCEPT ![r] = [NoCall EXCEPT !.pc = "wait",
                                                                   !.caller = "chat"]]
                    /\ UNCHANGED <<featureVars, settings, currentChatSession, isStreamingChat,
                                   isRequestInFlight, currentAbortController>>
               ELSE GenStart(r, pushed, currentChatSession, provider, apiKey)

\* `await this.resolveTaggedNotes(...)` completes
ResolveDone(r) ==
    /\ ~MicrotaskPending
    /\ gen[r].pc = "resolve"
    /\ GenStart(r, chatSessions, gen[r].session, gen[r].provider, gen[r].apiKey)

\* click on Stop (shown while isStreamingChat)
stopChatResponse ==
    /\ ~MicrotaskPending
    /\ isStreamingChat
    /\ IF currentAbortController # 0
       THEN /\ calls' = [calls EXCEPT ![currentAbortController] = abortSignal(@)]
            /\ currentAbortController' = 0
            /\ isRequestInFlight' = FALSE
            /\ isStreamingChat' = FALSE
            /\ chatInputDisabled' = FALSE
            /\ sendButtonDisabled' = FALSE
            /\ UNCHANGED <<featureVars, settings, gen, chatSessions, currentChatSession>>
       ELSE UNCHANGED vars

\* "+ New Chat": createNewChatSession, then renderChatInterface builds a new
\* input area
createNewChatSession ==
    /\ ~MicrotaskPending
    /\ Len(chatSessions) < MaxSessions
    /\ chatSessions' = Append(chatSessions, <<>>)
    /\ currentChatSession' = Len(chatSessions) + 1
    /\ chatInputDisabled' = FALSE
    /\ sendButtonDisabled' = FALSE
    /\ UNCHANGED <<featureVars, settings, calls, gen, isStreamingChat, isRequestInFlight,
                   currentAbortController>>

switchChatSession(session) ==
    /\ ~MicrotaskPending
    /\ session \in 1..Len(chatSessions)
    /\ session # currentChatSession
    /\ currentChatSession' = session
    /\ UNCHANGED <<featureVars, settings, calls, gen, chatSessions, isStreamingChat,
                   isRequestInFlight, currentAbortController,
                   chatInputDisabled, sendButtonDisabled>>

(***************************************************************************)
(* LjoveSToolsView (src/main.ts): every manager draws into the one         *)
(* containerEl of the view, so what is on screen is one value.  A change   *)
(* of the settings is saved by saveSettings, which hands the settings to   *)
(* the view, and the view renders again: the entry screen of the selected  *)
(* feature replaces whatever was shown.                                    *)
(***************************************************************************)
\* the results screen is not on screen
NoResult == [totalQuestions |-> 0, correctAnswers |-> 0, percentage |-> 0]

MainMenu == [selectedCategory |-> "", selectedFeature |-> "", screen |-> "menu"]

\* LjoveSToolsView.render
render(v, p) ==
    CASE v.selectedFeature = "quiz" -> "quiz.setup"
      [] v.selectedFeature = "explain" -> "explain"
      [] v.selectedFeature = "recap" -> "recap.init"
      [] v.selectedFeature = "" /\ v.selectedCategory = "chat" -> "chat"
      [] v.selectedFeature = "" /\ v.selectedCategory = "study" -> "study"
      [] v.selectedFeature = "" /\ v.selectedCategory = "research" ->
             IF p.paperAnalysis.null THEN "paper.input" ELSE "paper.config"
      [] OTHER -> "menu"

\* ExplainManager.renderInterface: a fresh, hidden response element
renderInterface(e) == [e EXCEPT !.explainResponseEl = "hidden"]

\* LjoveSToolsPlugin.saveSettings -> LjoveSToolsView.updateSettings
updateSettings ==
    /\ view' = [view EXCEPT !.screen = render(view, paper)]
    /\ explain' = IF view.selectedFeature = "explain"
                  THEN renderInterface(explain) ELSE explain
    /\ quiz' = [quiz EXCEPT !.result = NoResult, !.buttonDisabled = FALSE]
    /\ UNCHANGED <<recap, paper, vault, dispatched>>

(***************************************************************************)
(* Settings tab                                                            *)
(***************************************************************************)
SelectableModels(s) ==
    {AVAILABLE_MODELS[i].id : i \in 1..Len(AVAILABLE_MODELS)}
    \cup {s.customModels[i].id : i \in 1..Len(s.customModels)}

\* onChange of the "AI Model" dropdown
SelectModel(value) ==
    /\ value \in SelectableModels(settings)
    /\ value # settings.model
    /\ settings' = [settings EXCEPT !.model = value]
    /\ updateSettings
    /\ UNCHANGED <<calls, chatVars>>

showAddModelDialog(providerId, modelId) ==
    /\ Len(settings.customModels) < MaxCustom
    /\ settings' = [settings EXCEPT !.customModels =
                        Append(@, [id |-> modelId, provider |-> providerId])]
    /\ updateSettings
    /\ UNCHANGED <<calls, chatVars>>

\* "Delete" of a custom model
DeleteCustomModel(modelId) ==
    /\ \E i \in 1..Len(settings.customModels) : settings.customModels[i].id = modelId
    /\ settings' = [settings EXCEPT !.customModels =
                        SelectSeq(@, LAMBDA m : m.id # modelId)]
    /\ updateSettings
    /\ UNCHANGED <<calls, chatVars>>

\* onChange of the "API Key" field of a provider
SetApiKey(provider, value) ==
    /\ ApiKeyOf(settings, provider) # value
    /\ settings' =
         CASE provider = "openai" -> [settings EXCEPT !.openaiApiKey = value]
           [] provider = "deepseek" -> [settings EXCEPT !.deepseekApiKey = value]
           [] OTHER -> [settings EXCEPT !.geminiApiKey = value]
    /\ updateSettings
    /\ UNCHANGED <<calls, chatVars>>

(***************************************************************************)
(* AIService.callAI: one request, one response                             *)
(***************************************************************************)
ErrorStatuses == {401, 403, 404, 429, 503}

StatusText(status) ==
    CASE status = 401 -> "401"
      [] status = 403 -> "403"
      [] status = 404 -> "404"
      [] status = 429 -> "429"
      [] status = 503 -> "503"
      [] OTHER -> "200"

\* String.prototype.includes for a one-token needle
includes(message, token) == \E i \in 1..Len(message) : message[i] = token

toUpperCase(provider) ==
    CASE provider = "openai" -> "OPENAI"
      [] provider = "deepseek" -> "DEEPSEEK"
      [] OTHER -> "GEMINI"

Return(text) == [ok |-> TRUE, text |-> text, message |-> <<>>]
Throw(message) == [ok |-> FALSE, text |-> <<>>, message |-> message]

\* the body of a 200 response, per provider
MessageOf(text) == [hasMessage |-> TRUE, content |-> text]
NoMessage == [hasMessage |-> FALSE, content |-> <<>>]
DataOf(provider, text) ==
    IF provider \in {"openai", "deepseek"}
    THEN MessageOf(text)
    ELSE ChunkOf(<<Candidate(<<TextPart(text)>>)>>)
BadDataOf(provider) ==
    IF provider \in {"openai", "deepseek"} THEN NoMessage ELSE GChunkNoCandidates

NetworkFailure(provider) ==
    [failed |-> TRUE, status |-> 0, data |-> BadDataOf(provider)]
HttpResponse(provider, status, data) ==
    [failed |-> FALSE, status |-> status, data |-> data]

\* the responses a request of a feature may get, given the texts the model
\* may answer with
ResponsesFor(provider, texts) ==
    {NetworkFailure(provider)}
    \cup {HttpResponse(provider, st, BadDataOf(provider)) : st \in ErrorStatuses}
    \cup {HttpResponse(provider, 200, BadDataOf(provider))}
    \cup {HttpResponse(provider, 200, DataOf(provider, t)) : t \in texts}

extractTextFromGeminiResponse(data) ==
    LET textContent == candidatesText(data.candidates) IN
    IF textContent = <<>>
    THEN Throw(<<"Invalid response format from Gemini API: no text content found">>)
    ELSE Return(textContent)

\* the catch block of callAI
callAIcatch(provider, error) ==
    IF includes(error.message, "503")
    THEN Throw(<<toUpperCase(provider), " API is temporarily unavailable (",
                 "503", "). Please try again in a few moments.">>)
    ELSE error

callAI(provider, response) ==
    IF response.failed
    THEN callAIcatch(provider, Throw(<<"Failed to fetch">>))
    ELSE IF response.status \notin 200..299
    THEN callAIcatch(provider, Throw(<<"API Error ", StatusText(response.status)>>))
    ELSE IF provider \in {"openai", "deepseek"}
    THEN IF ~response.data.hasMessage
         THEN callAIcatch(provider,
                  Throw(<<"Invalid response format from OpenAI/DeepSeek API">>))
         ELSE Return(response.data.content)
    ELSE IF ~response.data.hasCandidates
         THEN callAIcatch(provider, Throw(<<"Invalid response format from Gemini API">>))
         ELSE callAIcatch(provider, extractTextFromGeminiResponse(response.data))

(***************************************************************************)
(* QuizManager (src/src/services/QuizManager.ts, lines 1-597)              *)
(*                                                                         *)
(* The text the model answers with is a sequence of tokens: '[', ']', ',', *)
(* a character of prose, or a whole JSON object, named by its kind.  A     *)
(* JavaScript value is its type with what the code asks of it: the length  *)
(* of a string or of an array, the numerator and the denominator of a      *)
(* number (JSON numbers need not be integers).                             *)
(***************************************************************************)
MaxQuestions == 2    \* objects in the array the model answers with

Undefined == [type |-> "undefined", n |-> 0, d |-> 1]
Str(len) == [type |-> "string", n |-> len, d |-> 1]
Arr(len) == [type |-> "array", n |-> len, d |-> 1]
Num(n, d) == [type |-> "number", n |-> n, d |-> d]

truthy(v) ==
    CASE v.type = "undefined" -> FALSE
      [] v.type = "string" -> v.n > 0
      [] v.type = "number" -> v.n # 0
      [] OTHER -> TRUE

\* a || b
or(a, b) == IF truthy(a) THEN a ELSE b

NoKeys ==
    [q |-> Undefined, question |-> Undefined, opts |-> Undefined,
     options |-> Undefined, ans |-> Undefined, correctAnswer |-> Undefined]
Compact(q, opts, ans) == [NoKeys EXCEPT !.q = q, !.opts = opts, !.ans = ans]

\* the objects the model may answer with; "ARRAY" is an array where an
\* object is expected
Backslash == "\\"
ValidKinds == {"E0", "Efull", "Ehalf"}
InvalidKinds == {"EnoQ", "EnoOpts", "EansStr", "Eneg", "Ebig"}
ElementKinds == ValidKinds \cup InvalidKinds
ElementOf(kind) ==
    CASE kind = "E0" -> Compact(Str(1), Arr(2), Num(0, 1))
      [] kind = "Efull" -> [NoKeys EXCEPT !.question = Str(1), !.options = Arr(2),
                                          !.correctAnswer = Num(0, 1)]
      [] kind = "Ehalf" -> Compact(Str(1), Arr(2), Num(1, 2))
      [] kind = "EnoQ" -> Compact(Str(0), Arr(2), Num(0, 1))
      [] kind = "EnoOpts" -> Compact(Str(1), Str(1), Num(0, 1))
      [] kind = "EansStr" -> Compact(Str(1), Arr(2), Str(1))
      [] kind = "Eneg" -> Compact(Str(1), Arr(2), Num(-1, 1))
      [] kind = "Ebig" -> Compact(Str(1), Arr(2), Num(2, 1))
      [] kind = "Enewline" -> Compact(Str(1), Arr(2), Num(0, 1))
      [] kind = "Ecommand" -> Compact(Str(2), Arr(2), Num(0, 1))
      [] kind = "Eother" -> Compact(Str(3), Arr(2), Num(0, 1))
      [] OTHER -> NoKeys

RECURSIVE JoinElements(_)
JoinElements(es) ==
    IF es = <<>> THEN <<>>
    ELSE IF Len(es) = 1 THEN es
    ELSE <<Head(es), ",">> \o JoinElements(Tail(es))

ArrayText(es) == <<"[">> \o JoinElements(es) \o <<"]">>
\* an object written with its question text: "{" stands for `{"q":"`, "}" for
\* `","opts":["1","2"],"ans":0}`, and between them are the characters of the
\* string literal
ObjectText(chars) == <<"{">> \o chars \o <<"}">>
\* the arrays the model answers with: at most one object of them is invalid
ElementSeqs ==
    {es \in UNION {[1..n -> ElementKinds] : n \in 0..MaxQuestions} :
        \A i, j \in 1..Len(es) :
            es[i] \in InvalidKinds /\ es[j] \in InvalidKinds => i = j}
QuizTexts ==
    {ArrayText(es) : es \in ElementSeqs}
    \cup { <<>>, <<"x">>, <<"[", "E0">>, <<"x", "[", "E0", "]", "x">>,
           <<"[", "[", "E0", "]", "]">>, <<"[", "x", "]">>, <<"[", "E0", "]", "]">>,
           <<"[", Backslash, "]">>,
           <<"]", "[", "Ehalf", "]", "[", "E0", "]">>,
           <<"x", "[">> \o ObjectText(<<Backslash, "n">>) \o <<"]", "]", "x">> }
\* what the language detection request is answered with
LanguageTexts == {<<"English">>}

\* the walk that stops at the first "]" whatever the depth
RECURSIVE findEnd_NoDepth(_, _, _)
findEnd_NoDepth(text, i, depth) ==
    IF i > Len(text) THEN 0
    ELSE IF text[i] = "]" THEN i
    ELSE findEnd_NoDepth(text, i + 1, depth)

\* the walk from openPos to the matching ']': 0 when there is none
RECURSIVE findEnd(_, _, _)
findEnd(text, i, depth) ==
    IF i > Len(text) THEN 0
    ELSE IF text[i] = "[" THEN findEnd(text, i + 1, depth + 1)
    ELSE IF text[i] = "]"
         THEN IF depth - 1 = 0 THEN i ELSE findEnd(text, i + 1, depth - 1)
    ELSE findEnd(text, i + 1, depth)

\* JSON.parse of the string literal of an object, from position i to its
\* "}": the escape \n is a line feed, \\ a backslash, any other one an error
RECURSIVE parseString(_, _, _)
parseString(js, i, chars) ==
    IF i > Len(js) THEN [ok |-> FALSE, chars |-> <<>>, next |-> i]
    ELSE IF js[i] = "}" THEN [ok |-> TRUE, chars |-> chars, next |-> i + 1]
    ELSE IF js[i] = Backslash
    THEN IF i + 1 > Len(js) THEN [ok |-> FALSE, chars |-> <<>>, next |-> i]
         ELSE IF js[i + 1] = "n" THEN parseString(js, i + 2, chars \o <<Newline>>)
         ELSE IF js[i + 1] = Backslash
         THEN parseString(js, i + 2, chars \o <<Backslash>>)
         ELSE [ok |-> FALSE, chars |-> <<>>, next |-> i]
    ELSE IF js[i] = "n" THEN parseString(js, i + 1, chars \o <<"n">>)
    ELSE [ok |-> FALSE, chars |-> <<>>, next |-> i]

\* the object whose question text is chars
ObjectKind(chars) ==
    CASE chars = <<Newline>> -> "Enewline"
      [] chars = <<Backslash, "n">> -> "Ecommand"
      [] OTHER -> "Eother"

\* JSON.parse of a token sequence: the items of the outermost array, with
\* "ARRAY" for a nested array; ok is FALSE where JSON.parse throws
RECURSIVE parseItems(_, _, _)
parseItems(js, i, items) ==
    \* i is the position of the next value of the array opened before it
    IF i > Len(js) THEN [ok |-> FALSE, items |-> <<>>, next |-> i]
    ELSE LET value ==
                 IF js[i] \in ElementKinds
                 THEN [ok |-> TRUE, items |-> <<js[i]>>, next |-> i + 1]
                 ELSE IF js[i] = "{"
                 THEN LET str == parseString(js, i + 1, <<>>) IN
                      [ok |-> str.ok, items |-> <<ObjectKind(str.chars)>>,
                       next |-> str.next]
                 ELSE IF js[i] = "["
                 THEN IF i + 1 <= Len(js) /\ js[i + 1] = "]"
                      THEN [ok |-> TRUE, items |-> <<"ARRAY">>, next |-> i + 2]
                      ELSE LET inner == parseItems(js, i + 1, <<>>) IN
                           [ok |-> inner.ok, items |-> <<"ARRAY">>, next |-> inner.next]
                 ELSE [ok |-> FALSE, items |-> <<>>, next |-> i]
         IN IF ~value.ok \/ value.next > Len(js)
            THEN [ok |-> FALSE, items |-> <<>>, next |-> i]
            ELSE IF js[value.next] = "]"
            THEN [ok |-> TRUE, items |-> items \o value.items, next |-> value.next + 1]
            ELSE IF js[value.next] = ","
            THEN parseItems(js, value.next + 1, items \o value.items)
            ELSE [ok |-> FALSE, items |-> <<>>, next |-> i]

JSONparseArray(jsonString) ==
    IF Len(jsonString) >= 2 /\ jsonString[1] = "[" /\ jsonString[2] = "]"
    THEN [ok |-> Len(jsonString) = 2, items |-> <<>>]
    ELSE IF Len(jsonString) >= 2 /\ jsonString[1] = "["
    THEN LET r == parseItems(jsonString, 2, <<>>) IN
         [ok |-> r.ok /\ r.next = Len(jsonString) + 1,
          items |-> IF r.ok /\ r.next = Len(jsonString) + 1 THEN r.items ELSE <<>>]
    ELSE [ok |-> FALSE, items |-> <<>>]

\* jsonString.replace(/\\/g, '\\\\')
RECURSIVE replaceBackslashes(_)
replaceBackslashes(str) ==
    IF str = <<>> THEN <<>>
    ELSE (IF Head(str) = Backslash THEN <<Backslash, Backslash>> ELSE <<Head(str)>>)
         \o replaceBackslashes(Tail(str))

\* MathUtils.ensureMathDelimiters of a question text: a backslash command is
\* wrapped in $...$
ensureMathDelimiters(kind) ==
    CASE kind = "Enewline" -> "line feed"
      [] kind = "Ecommand" -> "$\\n$"
      [] kind = "Eother" -> "other"
      [] OTHER -> "text"

\* the callback of questions.map: the question in full format, or the error
processQuestion(kind) ==
    LET q == ElementOf(kind)
        question == or(q.q, q.question)
        options == or(q.opts, q.options)
        correctAnswer == IF q.ans.type # "undefined" THEN q.ans ELSE q.correctAnswer
    IN IF ~truthy(question) \/ options.type # "array" \/ correctAnswer.type # "number"
       THEN [ok |-> FALSE, message |-> <<"Invalid question structure">>, value |-> <<>>]
       ELSE IF correctAnswer.n < 0 \/ correctAnswer.n >= correctAnswer.d * options.n
       THEN [ok |-> FALSE, message |-> <<"Invalid correct answer index">>, value |-> <<>>]
       ELSE [ok |-> TRUE, message |-> <<>>,
             value |-> << [question |-> ensureMathDelimiters(kind),
                           options |-> [i \in 1..options.n |-> "option"],
                           correctAnswer |-> correctAnswer] >>]

Questions(qs) == [ok |-> TRUE, questions |-> qs, message |-> <<>>]
NoQuestions(message) == [ok |-> FALSE, questions |-> <<>>, message |-> message]

RECURSIVE mapQuestions_SkipInvalid(_)
mapQuestions_SkipInvalid(items) ==
    IF items = <<>> THEN Questions(<<>>)
    ELSE Questions(processQuestion(Head(items)).value
                   \o mapQuestions_SkipInvalid(Tail(items)).questions)

\* questions.map(...): the first invalid element aborts the batch
RECURSIVE mapQuestions(_)
mapQuestions(items) ==
    IF items = <<>> THEN Questions(<<>>)
    ELSE LET first == processQuestion(Head(items)) IN
         IF ~first.ok THEN NoQuestions(first.message)
         ELSE LET rest == mapQuestions(Tail(items)) IN
              IF ~rest.ok THEN rest
              ELSE Questions(first.value \o rest.questions)

UnableToParse ==
    <<"Unable to parse valid question list", " from AI response. Please try again.">>

\* generateQuestionsWithAI, from `if (!text)` to `return processedQuestions`
extractQuestions(text) ==
    IF text = <<>> THEN NoQuestions(<<"No response from AI">>)
    ELSE LET openPos == IndexOf(text, "[") IN
         IF openPos = 0 THEN NoQuestions(<<"No valid JSON array found in AI response">>)
         ELSE LET endPos == findEnd(text, openPos, 0) IN
              IF endPos = 0
              THEN NoQuestions(<<"No valid JSON array found in AI response">>)
              ELSE LET jsonString == SubSeq(text, openPos, endPos)
                       safeJsonString == replaceBackslashes(jsonString)
                       first == JSONparseArray(safeJsonString)
                       questions == IF first.ok THEN first
                                    ELSE JSONparseArray(jsonString)
                   IN IF ~questions.ok \/ questions.items = <<>>
                      THEN NoQuestions(UnableToParse)
                      ELSE mapQuestions(questions.items)

\* the catch block of generateQuestionsWithAI
friendlyError(message) ==
    IF includes(message, "503")
    THEN <<"AI service is temporarily unavailable. Please try again in a few moments.">>
    ELSE IF includes(message, "401") \/ includes(message, "403")
    THEN <<"API key is invalid or has insufficient permissions. Please check your API key in settings.">>
    ELSE IF includes(message, "429")
    THEN <<"API rate limit exceeded. Please wait a moment and try again.">>
    ELSE IF includes(message, "404")
    THEN <<"Selected model is not available. Please choose a different model in settings.">>
    ELSE message

\* the catch block of generateTest: what the Notice says
generateTestNotice(message) ==
    IF includes(message, "Unable to parse valid question list")
    THEN message
    ELSE <<"Error generating test. Please try again.">>

NoAnswer == -1       \* selectedAnswer: null
NullTestData ==
    [null |-> TRUE, questions |-> <<>>, currentQuestion |-> 0,
     selectedAnswer |-> NoAnswer, answered |-> FALSE, correctAnswers |-> 0]

\* what is wrong with an object the model answers with (history only)
DefectOf(kind) ==
    CASE kind = "EnoQ" -> {"no question text"}
      [] kind = "EnoOpts" -> {"options not an array"}
      [] kind = "EansStr" -> {"correctAnswer not a number"}
      [] kind = "Eneg" -> {"correctAnswer < 0"}
      [] kind = "Ebig" -> {"correctAnswer >= options.length"}
      [] OTHER -> {}
DefectsOf(items) == UNION {DefectOf(items[i]) : i \in 1..Len(items)}

\* pc is the await generateTest is suspended at; notice is the Notice of the
\* last click on "Generate Test", result what the results screen shows;
\* requests, status and
\* defects are history: the AI requests the generation has issued, the HTTP
\* status its question request failed with, what was wrong with the parsed
\* array
NoQuiz ==
    [isGenerating |-> FALSE, buttonDisabled |-> FALSE, pc |-> "idle", provider |-> "",
     testData |-> NullTestData, notice |-> <<>>, result |-> NoResult,
     requests |-> 0, status |-> 0, defects |-> {}]

Request(by, provider, apiKey) == [by |-> by, provider |-> provider, apiKey |-> apiKey]

\* the array generateQuestionsWithAI parses out of a text (history only)
parsedItems(text) ==
    LET openPos == IndexOf(text, "[")
        endPos == IF openPos = 0 THEN 0 ELSE findEnd(text, openPos, 0)
    IN IF endPos = 0 THEN <<>>
       ELSE JSONparseArray(SubSeq(text, openPos, endPos)).items

\* generateTest: catch and finally
generateTestFailed(qz, message) ==
    [qz EXCEPT !.notice = generateTestNotice(message),
               !.isGenerating = FALSE, !.buttonDisabled = FALSE, !.pc = "idle"]

\* generateTest with `selectedAnswer: 0` in the initial test data
generateTestDone_Preselected(qz, questions) ==
    IF questions = <<>>
    THEN [qz EXCEPT !.notice = <<"Failed to generate questions">>,
                    !.isGenerating = FALSE, !.buttonDisabled = FALSE, !.pc = "idle"]
    ELSE [qz EXCEPT !.testData = [null |-> FALSE, questions |-> questions,
                                  currentQuestion |-> 0, selectedAnswer |-> 0,
                                  answered |-> FALSE, correctAnswers |-> 0],
                    !.result = NoResult,
                    !.isGenerating = FALSE, !.buttonDisabled = FALSE, !.pc = "idle"]

\* generateTest after `await this.generateQuestionsWithAI(...)` returned
generateTestDone(qz, questions) ==
    IF questions = <<>>
    THEN [qz EXCEPT !.notice = <<"Failed to generate questions">>,
                    !.isGenerating = FALSE, !.buttonDisabled = FALSE, !.pc = "idle"]
    ELSE [qz EXCEPT !.testData = [null |-> FALSE, questions |-> questions,
                                  currentQuestion |-> 0, selectedAnswer |-> NoAnswer,
                                  answered |-> FALSE, correctAnswers |-> 0],
                    !.result = NoResult,
                    !.isGenerating = FALSE, !.buttonDisabled = FALSE, !.pc = "idle"]

\* generateQuestionsWithAI, the request for the questions: the key is read
\* again
requestQuestions(qz) ==
    LET apiKey == getCurrentApiKey(settings)
        provider == getModelProvider(settings)
    IN IF apiKey = ""
       THEN /\ quiz' = generateTestFailed(qz,
                   friendlyError(<<"API key not configured. Please set it in plugin settings.">>))
            /\ UNCHANGED dispatched
       ELSE /\ quiz' = [qz EXCEPT !.pc = "gen", !.provider = provider,
                                  !.requests = @ + 1]
            /\ dispatched' = dispatched \cup {Request("quiz", provider, apiKey)}

\* click on "Generate Test" (disabled by the generation that the screen on
\* display has started); a click while nothing is generated starts the
\* history anew
QuizGenerateClick(noteName) ==
    /\ view.screen = "quiz.setup"
    /\ ~quiz.buttonDisabled
    /\ LET fresh == IF quiz.isGenerating THEN quiz
                    ELSE [quiz EXCEPT !.requests = 0, !.status = 0, !.defects = {}]
       IN
       IF getCurrentApiKey(settings) = ""
       THEN quiz' = [fresh EXCEPT !.notice =
                <<"Please configure your ", toUpperCase(getModelProvider(settings)),
                  " API key in plugin settings first">>]
       ELSE IF noteName = ""
       THEN quiz' = [fresh EXCEPT !.notice = <<"Please enter a note name">>]
       ELSE IF quiz.isGenerating
       THEN UNCHANGED quiz
       ELSE quiz' = [fresh EXCEPT !.isGenerating = TRUE, !.buttonDisabled = TRUE,
                                  !.pc = "note", !.notice = <<>>]
    /\ UNCHANGED <<settings, calls, chatVars, view, explain, recap, paper, vault,
                   dispatched>>

\* `await this.getNoteContent(noteName)` settles: without a note the
\* generation ends, with one the language detection request goes out when a
\* key is set
QuizNoteRead(found) ==
    /\ quiz.pc = "note"
    /\ LET apiKey == getCurrentApiKey(settings)
           provider == getModelProvider(settings)
       IN IF ~found
          THEN /\ quiz' = [quiz EXCEPT !.notice = <<"Note ", "noteName", " not found">>,
                                       !.isGenerating = FALSE,
                                       !.buttonDisabled = FALSE, !.pc = "idle"]
               /\ UNCHANGED dispatched
          ELSE IF apiKey # ""
          THEN /\ quiz' = [quiz EXCEPT !.pc = "lang", !.provider = provider,
                                       !.requests = @ + 1]
               /\ dispatched' = dispatched \cup {Request("quiz", provider, apiKey)}
          ELSE requestQuestions(quiz)
    /\ UNCHANGED <<settings, calls, chatVars, view, explain, recap, paper, vault>>

\* the language detection request settles; its failure is only logged
QuizLanguageResolve ==
    /\ quiz.pc = "lang"
    /\ requestQuestions(quiz)
    /\ UNCHANGED <<settings, calls, chatVars, view, explain, recap, paper, vault>>

\* the request for the questions settles
QuizQuestionsResolve(response) ==
    /\ quiz.pc = "gen"
    /\ LET r == callAI(quiz.provider, response)
           qz == [quiz EXCEPT !.status = IF response.failed THEN 0
                                         ELSE IF response.status \in 200..299 THEN 0
                                         ELSE response.status,
                              !.defects = IF r.ok THEN DefectsOf(parsedItems(r.text))
                                          ELSE {}]
           e == IF r.ok THEN extractQuestions(r.text) ELSE NoQuestions(r.message)
       IN IF e.ok
          THEN /\ quiz' = generateTestDone(qz, e.questions)
               /\ view' = IF e.questions = <<>> THEN view
                          ELSE [view EXCEPT !.screen = "quiz.test"]
          ELSE /\ quiz' = generateTestFailed(qz, friendlyError(e.message))
               /\ UNCHANGED view
    /\ UNCHANGED <<settings, calls, chatVars, explain, recap, paper, vault, dispatched>>

(***************************************************************************)
(* The Number arithmetic of renderResultsScreen.  A Number is an IEEE 754  *)
(* double: 53 significant bits, every operation rounded to nearest, ties   *)
(* to even.  Here a Number is [m, k]: five digits m of base 2^13, the      *)
(* first one the integer part, and a scale k; its value is                 *)
(* (m[1] + m[2]/2^13 + m[3]/2^26 + m[4]/2^39 + m[5]/2^52) / 2^k.           *)
(***************************************************************************)
Digit == 8192

RECURSIVE Pow2(_)
Pow2(k) == IF k = 0 THEN 1 ELSE 2 * Pow2(k - 1)

\* the digits brought back below the base, the excess carried upwards
carry(m) ==
    LET m5 == m[5]
        m4 == m[4] + m5 \div Digit
        m3 == m[3] + m4 \div Digit
        m2 == m[2] + m3 \div Digit
        m1 == m[1] + m2 \div Digit
    IN <<m1, m2 % Digit, m3 % Digit, m4 % Digit, m5 % Digit>>

\* round to nearest, ties to even: guard is the first bit dropped, sticky
\* whether anything is left below it
roundUp(keptIsOdd, guard, sticky) ==
    IF guard = 1 /\ (sticky \/ keptIsOdd) THEN 1 ELSE 0

\* the least k with c * 2^k >= n
RECURSIVE shiftOf(_, _, _)
shiftOf(c, n, k) == IF c * Pow2(k) >= n THEN k ELSE shiftOf(c, n, k + 1)

\* c / n for 0 < c <= n: long division, 52 bits after the leading one
divide(c, n) ==
    LET k == shiftOf(c, n, 0)
        r0 == c * Pow2(k) - n
        d1 == (r0 * Digit) \div n
        r1 == (r0 * Digit) % n
        d2 == (r1 * Digit) \div n
        r2 == (r1 * Digit) % n
        d3 == (r2 * Digit) \div n
        r3 == (r2 * Digit) % n
        d4 == (r3 * Digit) \div n
        r4 == (r3 * Digit) % n
        guard == (2 * r4) \div n
        sticky == (2 * r4) % n # 0
    IN [m |-> carry(<<1, d1, d2, d3, d4 + roundUp(d4 % 2 = 1, guard, sticky)>>),
        k |-> k]

\* x * 100 for 1 <= x * 2^k < 2: the product has 59 or 60 bits, of which the
\* lowest 6 or 7 are rounded away
times100(x) ==
    LET p == carry([i \in 1..5 |-> x.m[i] * 100])
        s == IF p[1] < 128 THEN 6 ELSE 7
        kept == p[5] \div Pow2(s)
        low == p[5] % Pow2(s)
        guard == low \div Pow2(s - 1)
        sticky == low % Pow2(s - 1) # 0
    IN [m |-> carry(<<p[1], p[2], p[3], p[4],
                      (kept + roundUp(kept % 2 = 1, guard, sticky)) * Pow2(s)>>),
        k |-> x.k]

\* Math.round(x) = floor(x + 1/2); the digits below m[2] cannot change it
MathRound(x) ==
    (x.m[1] * Digit + x.m[2] + Pow2(12 + x.k)) \div Pow2(13 + x.k)

\* Math.round((correctAnswers / questions.length) * 100)
percentage(correctAnswers, length) ==
    IF correctAnswers = 0 THEN 0
    ELSE MathRound(times100(divide(correctAnswers, length)))

(***************************************************************************)
(* QuizManager: taking the test                                            *)
(***************************************************************************)
\* answerIndex === currentQuestion.correctAnswer
isCorrect(answerIndex, correctAnswer) == correctAnswer.n = answerIndex * correctAnswer.d

selectAnswer_NoGuard(td, answerIndex) ==
    IF td.null THEN td
    ELSE LET currentQuestion == td.questions[td.currentQuestion + 1] IN
         [td EXCEPT !.selectedAnswer = answerIndex,
                    !.answered = TRUE,
                    !.correctAnswers =
                        IF isCorrect(answerIndex, currentQuestion.correctAnswer)
                        THEN @ + 1 ELSE @]

selectAnswer(td, answerIndex) ==
    IF td.null \/ td.answered THEN td
    ELSE LET currentQuestion == td.questions[td.currentQuestion + 1] IN
         [td EXCEPT !.selectedAnswer = answerIndex,
                    !.answered = TRUE,
                    !.correctAnswers =
                        IF isCorrect(answerIndex, currentQuestion.correctAnswer)
                        THEN @ + 1 ELSE @]

\* a click on an answer of the test screen; the method is also entered
\* when there is nothing to answer
SelectAnswer(answerIndex) ==
    /\ view.screen = "quiz.test" \/ quiz.testData.null
    /\ IF quiz.testData.null THEN TRUE
       ELSE answerIndex <
                Len(quiz.testData.questions[quiz.testData.currentQuestion + 1].options)
    /\ quiz' = [quiz EXCEPT !.testData = selectAnswer(@, answerIndex)]
    /\ UNCHANGED <<settings, calls, chatVars, view, explain, recap, paper, vault,
                   dispatched>>

renderResultsScreen(td) ==
    [totalQuestions |-> Len(td.questions),
     correctAnswers |-> td.correctAnswers,
     percentage |-> percentage(td.correctAnswers, Len(td.questions))]

\* the method entered whether or not the current question is answered
nextQuestion_NoGuard ==
    /\ view.screen = "quiz.test"
    /\ ~quiz.testData.null
    /\ IF quiz.testData.currentQuestion < Len(quiz.testData.questions) - 1
       THEN /\ quiz' = [quiz EXCEPT !.testData.currentQuestion = @ + 1,
                                    !.testData.selectedAnswer = NoAnswer,
                                    !.testData.answered = FALSE]
            /\ UNCHANGED view
       ELSE /\ quiz' = [quiz EXCEPT !.result = renderResultsScreen(quiz.testData)]
            /\ view' = [view EXCEPT !.screen = "quiz.results"]
    /\ UNCHANGED <<settings, calls, chatVars, explain, recap, paper, vault, dispatched>>

\* click on "Next Question" / "Finish Test" (enabled once answered)
nextQuestion ==
    /\ view.screen = "quiz.test"
    /\ ~quiz.testData.null
    /\ quiz.testData.answered
    /\ IF quiz.testData.currentQuestion < Len(quiz.testData.questions) - 1
       THEN /\ quiz' = [quiz EXCEPT !.testData.currentQuestion = @ + 1,
                                    !.testData.selectedAnswer = NoAnswer,
                                    !.testData.answered = FALSE]
            /\ UNCHANGED view
       ELSE /\ quiz' = [quiz EXCEPT !.result = renderResultsScreen(quiz.testData)]
            /\ view' = [view EXCEPT !.screen = "quiz.results"]
    /\ UNCHANGED <<settings, calls, chatVars, explain, recap, paper, vault, dispatched>>

\* onBackCallback of the study features: back to the study menu
onBackCallback(v) == [v EXCEPT !.selectedFeature = "", !.screen = "study"]

\* "Back to Setup" of the test screen, "Take Another Test" and "Close" of
\* the results screen
BackToSetup ==
    /\ view.screen \in {"quiz.test", "quiz.results"}
    /\ quiz' = [quiz EXCEPT !.testData = NullTestData, !.result = NoResult]
    /\ view' = onBackCallback(view)
    /\ UNCHANGED <<settings, calls, chatVars, explain, recap, paper, vault, dispatched>>

\* a feature button of the study menu
SelectFeature(feature) ==
    /\ view.screen = "study"
    /\ view' = [view EXCEPT !.selectedFeature = feature,
                            !.screen = render([view EXCEPT !.selectedFeature = feature],
                                              paper)]
    /\ explain' = IF feature = "explain" THEN renderInterface(explain) ELSE explain
    /\ UNCHANGED <<settings, calls, chatVars, quiz, recap, paper, vault, dispatched>>

(***************************************************************************)
(* ExplainManager (src/src/services/ExplainManager.ts)                     *)
(*                                                                         *)
(* explainResponseEl is what the response element shows.  pending are the  *)
(* explainText calls suspended at their request, oldest first.  The        *)
(* streamed variant (streamExplanation of src/main.ts) settles in one step *)
(* here: its intermediate renderings change no field of the manager.       *)
(***************************************************************************)
MaxPending == 2      \* requests of one controller in flight at a time

ExplainTexts == {<<"t">>}

NoExplain ==
    [explainLevel |-> "", explainInput |-> <<>>, explainResponseEl |-> "hidden",
     explanationRaw |-> <<>>, pending |-> <<>>, notice |-> <<>>]

RemoveAt(seq, i) == SubSeq(seq, 1, i - 1) \o SubSeq(seq, i + 1, Len(seq))

\* a level button
SelectLevel(lvl) ==
    /\ view.screen = "explain"
    /\ explain' = [explain EXCEPT !.explainLevel = lvl]
    /\ UNCHANGED <<settings, calls, chatVars, view, quiz, recap, paper, vault,
                   dispatched>>

\* the input event of the textarea
ExplainInput(value) ==
    /\ view.screen = "explain"
    /\ explain' = [explain EXCEPT !.explainInput = value]
    /\ UNCHANGED <<settings, calls, chatVars, view, quiz, recap, paper, vault,
                   dispatched>>

\* click on "Generate Explanation": explainText up to its request
explainText ==
    /\ view.screen = "explain"
    /\ IF explain.explainLevel = ""
       THEN /\ explain' = [explain EXCEPT !.notice =
                               <<"Please select an explanation level">>]
            /\ UNCHANGED dispatched
       ELSE IF explain.explainInput = <<>>
       THEN /\ explain' = [explain EXCEPT !.notice = <<"Please paste text to explain">>]
            /\ UNCHANGED dispatched
       ELSE LET apiKey == getCurrentApiKey(settings)
                provider == getModelProvider(settings)
            IN IF apiKey = ""
               THEN /\ explain' = [explain EXCEPT !.explainResponseEl = "error"]
                    /\ UNCHANGED dispatched
               ELSE /\ Len(explain.pending) < MaxPending
                    /\ explain' = [explain EXCEPT
                           !.explainResponseEl = "loading",
                           !.pending = Append(@, [provider |-> provider])]
                    /\ dispatched' = dispatched \cup
                           {Request("explain", provider, apiKey)}
    /\ UNCHANGED <<settings, calls, chatVars, view, quiz, recap, paper, vault>>

\* streamExplanation of src/main.ts, from the request to the full response
streamExplanation(response) ==
    IF response.failed THEN Throw(<<"Failed to fetch">>)
    ELSE IF response.status \notin 200..299
    THEN Throw(<<"API Error ", StatusText(response.status)>>)
    ELSE Return(response.data.content)

\* the request of the i-th pending explainText settles
ExplainResolve(i, response) ==
    /\ i \in 1..Len(explain.pending)
    /\ LET streamed == explain.pending[i].provider \in {"openai", "deepseek"}
           r == IF streamed THEN streamExplanation(response)
                ELSE callAI(explain.pending[i].provider, response)
       IN
       IF r.ok
       THEN explain' = [explain EXCEPT
                !.explanationRaw = r.text,
                !.explainResponseEl = IF ~streamed /\ r.text = <<>>
                                      THEN "empty" ELSE "response",
                !.pending = RemoveAt(@, i)]
       ELSE explain' = [explain EXCEPT !.explainResponseEl = "error",
                                       !.pending = RemoveAt(@, i)]
    /\ UNCHANGED <<settings, calls, chatVars, view, quiz, recap, paper, vault,
                   dispatched>>

(***************************************************************************)
(* RecapManager (src/src/services/RecapManager.ts)                         *)
(*                                                                         *)
(* recapFeedback is indexed by recapIndex + 1, "" is a hole of the array.  *)
(* The feedback the model gives names the question its prompt quoted.      *)
(* intervals are the timers of startLoader still running, loaderInterval   *)
(* (0 = undefined) is the one handle the manager remembers.  pending are   *)
(* the requests in flight, oldest first.                                   *)
(***************************************************************************)
MaxRecapCount == 2   \* values of the question count select that are used
MaxLoaders == 2      \* startLoader calls per behaviour

Thinking == "hmm let me think..."
FeedbackFor(index) ==
    CASE index = 0 -> "feedback on question 1"
      [] index = 1 -> "feedback on question 2"
      [] index = 2 -> "feedback on question 3"
      [] OTHER -> "feedback on a later question"

\* what the model answers the question request with: JSON or plain lines
RecapRaws ==
    {[json |-> j, lines |-> [i \in 1..k |-> "q"]] :
        j \in BOOLEAN, k \in 0..(MaxRecapCount + 1)}
RecapTexts == {<<raw>> : raw \in RecapRaws}
FeedbackTexts == {<<"fb">>}

NoFeedback == [i \in 1..(MaxRecapCount + 1) |-> ""]
NoRecap ==
    [recapContent |-> <<>>, recapCount |-> 1, recapQuestions |-> <<>>,
     recapIndex |-> 0, recapFeedback |-> NoFeedback, loaderInterval |-> 0,
     intervals |-> {}, loaders |-> 0, pending |-> <<>>, notice |-> <<>>]

\* the input event of the textarea
RecapInput(value) ==
    /\ view.screen = "recap.init"
    /\ recap' = [recap EXCEPT !.recapContent = value]
    /\ UNCHANGED <<settings, calls, chatVars, view, quiz, explain, paper, vault,
                   dispatched>>

\* the change event of the count select
RecapSelectCount(n) ==
    /\ view.screen = "recap.init"
    /\ recap' = [recap EXCEPT !.recapCount = n]
    /\ UNCHANGED <<settings, calls, chatVars, view, quiz, explain, paper, vault,
                   dispatched>>

\* click on "Generate Questions": generateRecapQuestions up to its request
generateRecapQuestions ==
    /\ view.screen = "recap.init"
    /\ IF recap.recapContent = <<>>
       THEN /\ recap' = [recap EXCEPT !.notice =
                             <<"Please paste some text or a note name">>]
            /\ UNCHANGED <<view, dispatched>>
       ELSE LET apiKey == getCurrentApiKey(settings)
                provider == getModelProvider(settings)
            IN /\ Len(recap.pending) < MaxPending
               /\ view' = [view EXCEPT !.screen = "recap.loading"]
               /\ recap' = [recap EXCEPT !.pending =
                      Append(@, [kind |-> "questions", provider |-> provider,
                                 index |-> 0])]
               /\ dispatched' = dispatched \cup {Request("recap", provider, apiKey)}
    /\ UNCHANGED <<settings, calls, chatVars, quiz, explain, paper, vault>>

\* raw.trim().split(/\n+/).slice(0, recapCount): the empty text is one
\* empty line
splitLines(raw, recapCount) ==
    LET lines == IF raw.lines = <<>> THEN <<"">> ELSE raw.lines IN
    SubSeq(lines, 1, IF Len(lines) < recapCount THEN Len(lines) ELSE recapCount)

\* the question request settles; a rejection is handled nowhere
RecapQuestionsResolve(i, response) ==
    /\ i \in 1..Len(recap.pending)
    /\ recap.pending[i].kind = "questions"
    /\ LET r == callAI(recap.pending[i].provider, response) IN
       IF ~r.ok
       THEN /\ recap' = [recap EXCEPT !.pending = RemoveAt(@, i)]
            /\ UNCHANGED view
       ELSE LET raw == IF r.text = <<>> THEN [json |-> FALSE, lines |-> <<>>]
                       ELSE r.text[1]
            IN /\ recap' = [recap EXCEPT
                      !.recapQuestions = IF raw.json THEN raw.lines
                                         ELSE splitLines(raw, recap.recapCount),
                      !.recapIndex = 0,
                      !.recapFeedback = NoFeedback,
                      !.pending = RemoveAt(@, i)]
               /\ view' = [view EXCEPT !.screen = "recap.question"]
    /\ UNCHANGED <<settings, calls, chatVars, quiz, explain, paper, vault, dispatched>>

\* click on "Send": handleRecapAnswer up to its request
handleRecapAnswer(answer) ==
    /\ view.screen = "recap.question"
    /\ IF answer = <<>>
       THEN /\ recap' = [recap EXCEPT !.notice =
                             <<"Please enter an answer or use voice input">>]
            /\ UNCHANGED <<view, dispatched>>
       ELSE LET apiKey == getCurrentApiKey(settings)
                provider == getModelProvider(settings)
                id == recap.loaders + 1
            IN /\ Len(recap.pending) < MaxPending
               /\ recap.loaders < MaxLoaders
               /\ recap' = [recap EXCEPT
                      !.loaders = id,
                      !.loaderInterval = id,
                      !.intervals = @ \cup {id},
                      !.recapFeedback[recap.recapIndex + 1] = Thinking,
                      !.pending = Append(@, [kind |-> "feedback",
                                             provider |-> provider,
                                             index |-> recap.recapIndex])]
               /\ dispatched' = dispatched \cup {Request("recap", provider, apiKey)}
               /\ UNCHANGED view
    /\ UNCHANGED <<settings, calls, chatVars, quiz, explain, paper, vault>>

\* stopLoader
stopLoader(rc) ==
    IF rc.loaderInterval # 0
    THEN [rc EXCEPT !.intervals = @ \ {rc.loaderInterval}, !.loaderInterval = 0]
    ELSE rc

\* the feedback request settles; a rejection is handled nowhere
RecapFeedbackResolve(i, response) ==
    /\ i \in 1..Len(recap.pending)
    /\ recap.pending[i].kind = "feedback"
    /\ LET r == callAI(recap.pending[i].provider, response) IN
       IF ~r.ok
       THEN /\ recap' = [recap EXCEPT !.pending = RemoveAt(@, i)]
            /\ UNCHANGED view
       ELSE /\ recap' = stopLoader([recap EXCEPT
                      !.recapFeedback[recap.recapIndex + 1] =
                          IF r.text = <<>> THEN "No feedback."
                          ELSE FeedbackFor(recap.pending[i].index),
                      !.pending = RemoveAt(@, i)])
            /\ view' = [view EXCEPT !.screen = "recap.question"]
    /\ UNCHANGED <<settings, calls, chatVars, quiz, explain, paper, vault, dispatched>>

\* a timer of startLoader fires
LoaderTick(id) ==
    /\ id \in recap.intervals
    /\ recap' = [recap EXCEPT !.recapFeedback[recap.recapIndex + 1] = Thinking]
    /\ view' = [view EXCEPT !.screen = "recap.question"]
    /\ UNCHANGED <<settings, calls, chatVars, quiz, explain, paper, vault, dispatched>>

\* click on "Next" / "Finish" (shown when the question has feedback)
RecapNext ==
    /\ view.screen = "recap.question"
    /\ recap.recapFeedback[recap.recapIndex + 1] # ""
    /\ IF recap.recapIndex + 1 < recap.recapCount
       THEN /\ recap' = [recap EXCEPT !.recapIndex = @ + 1]
            /\ UNCHANGED view
       ELSE /\ view' = [view EXCEPT !.screen = "recap.summary"]
            /\ UNCHANGED recap
    /\ UNCHANGED <<settings, calls, chatVars, quiz, explain, paper, vault, dispatched>>

\* "Back to Menu" of the summary
RecapBackToMenu ==
    /\ view.screen = "recap.summary"
    /\ recap' = [recap EXCEPT !.recapQuestions = <<>>, !.recapFeedback = NoFeedback]
    /\ view' = onBackCallback(view)
    /\ UNCHANGED <<settings, calls, chatVars, quiz, explain, paper, vault, dispatched>>

(***************************************************************************)
(* Paper importer: loadPaper and generatePaperSummary of src/main.ts,      *)
(* downloadPDF and createPaperNote of PaperImporterManager                 *)
(* (src/unnamed/part_000).                                                 *)
(*                                                                         *)
(* The vault is the set of its files and of its folders.  A path is the    *)
(* folder, the sanitized name and the extension.  One import is followed   *)
(* at a time; whatever else writes to the vault meanwhile (another import, *)
(* the user, a sync) is ExternalCreate.  pdf and note are the history of   *)
(* the last downloadPDF and createPaperNote call: whether the file was     *)
(* there when the call looked, what the call downloaded and created, how   *)
(* it ended.  The summary request settles in one step: its chunks only     *)
(* repaint the screen.                                                     *)
(***************************************************************************)
MaxImports == 2      \* "Load Paper" clicks per behaviour
MaxExternal == 1     \* files created in the vault by somebody else

paperPDFFolder == "Assets"
paperNotesFolder == "Literature Notes"
Titles == {"A:B", "A-B"}

\* filename.replace(/[\/\\?%*:|"<>]/g, '-').replace(/\s+/g, ' ').trim()
safeName(title) == IF title = "A:B" THEN "A-B" ELSE title

pdfPathOf(title) == <<paperPDFFolder, safeName(title), ".pdf">>
notePathOf(title) == <<paperNotesFolder, safeName(title), ".md">>
FilePaths == {pdfPathOf(t) : t \in Titles} \cup {notePathOf(t) : t \in Titles}
NoPath == <<"", "", "">>

\* the content of a note, section by section; a PDF has the content <<>>
\* here.  PlainNote is what createPaperNote writes.
PlainNote == <<"frontmatter", "# title", "summary">>
NoOptions ==
    [alphaxivUrl |-> FALSE, alphaxivArticle |-> FALSE, podcastFile |-> FALSE,
     transcriptText |-> FALSE]

\* PaperImporterManager.buildAlphaXivContent
buildAlphaXivContent(options) ==
    (IF options.podcastFile THEN <<"## Listen">> ELSE <<>>)
    \o (IF options.transcriptText THEN <<"Transcript">> ELSE <<>>)
    \o (IF options.alphaxivArticle THEN <<"## AlphaXiv Overview">> ELSE <<>>)
    \o (IF options.alphaxivUrl THEN <<"[View on AlphaXiv]">> ELSE <<>>)

\* noteContent of createAdvancedPaperNote
AdvancedNote(options) ==
    <<"frontmatter">>
    \o (IF options.podcastFile THEN <<"podcast:">> ELSE <<>>)
    \o (IF options.alphaxivUrl THEN <<"alphaxiv_url:">> ELSE <<>>)
    \o <<"# title">> \o buildAlphaXivContent(options) \o <<"## AI Summary", "summary">>

EmptyVault == [files |-> {}, folders |-> {}, content |-> [path \in FilePaths |-> <<>>]]
\* a file lies in a folder; the notes are those of earlier imports
Vaults ==
    {[files |-> fs, folders |-> {path[1] : path \in fs},
      content |-> [path \in FilePaths |->
                      IF path \in fs /\ path[3] = ".md" THEN PlainNote ELSE <<>>]] :
        fs \in SUBSET FilePaths}

NullAnalysis == [null |-> TRUE, title |-> "", pdfFile |-> NoPath]
NoVaultCall ==
    [path |-> NoPath, existed |-> FALSE, downloads |-> 0, created |-> {},
     content |-> <<>>, outcome |-> "none", result |-> NoPath]
NoPaper ==
    [pc |-> "idle", paperAnalysis |-> NullAnalysis, title |-> "", notice |-> <<>>,
     imports |-> 0, external |-> 0, pdf |-> NoVaultCall, note |-> NoVaultCall,
     enableAlphaXiv |-> FALSE, options |-> NoOptions]

\* the catch block of loadPaper
loadPaperFailed(p, message) ==
    [p EXCEPT !.pc = "idle", !.paperAnalysis = NullAnalysis,
              !.notice = <<"Failed to load paper: ">> \o message]

\* click on "Load Paper" (disabled when the screen was drawn without a key)
loadPaper(urlInput) ==
    /\ view.screen = "paper.input"
    /\ getCurrentApiKey(settings) # ""
    /\ paper.pc = "idle"
    /\ IF urlInput = ""
       THEN /\ paper' = [paper EXCEPT !.notice =
                             <<"Please enter a paper URL or arXiv ID">>]
            /\ UNCHANGED view
       ELSE IF urlInput = "invalid"
       THEN /\ paper' = [paper EXCEPT !.notice = <<"Invalid arXiv URL or ID format">>]
            /\ view' = [view EXCEPT !.screen = render(view, paper)]
       ELSE /\ paper.imports < MaxImports
            /\ paper' = [paper EXCEPT !.pc = "metadata", !.imports = @ + 1]
            /\ view' = [view EXCEPT !.screen = "paper.loading"]
    /\ UNCHANGED <<settings, calls, chatVars, quiz, explain, recap, vault, dispatched>>

downloadPDF_NoCheck(p, v, title) ==
    LET pdfPath == pdfPathOf(title)
        call == [NoVaultCall EXCEPT !.path = pdfPath,
                                    !.existed = pdfPath \in v.files]
    IN IF paperPDFFolder \notin v.folders
       THEN [p EXCEPT !.pc = "pdf.mkdir", !.title = title, !.pdf = call]
       ELSE [p EXCEPT !.pc = "pdf.download", !.title = title,
                      !.pdf = [call EXCEPT !.downloads = @ + 1]]

\* downloadPDF up to its first await that waits
downloadPDF(p, v, title) ==
    LET pdfPath == pdfPathOf(title)
        call == [NoVaultCall EXCEPT !.path = pdfPath,
                                    !.existed = pdfPath \in v.files]
    IN IF pdfPath \in v.files
       THEN [p EXCEPT !.pc = "extract", !.title = title,
                      !.pdf = [call EXCEPT !.outcome = "returned",
                                           !.result = pdfPath]]
       ELSE IF paperPDFFolder \notin v.folders
       THEN [p EXCEPT !.pc = "pdf.mkdir", !.title = title, !.pdf = call]
       ELSE [p EXCEPT !.pc = "pdf.download", !.title = title,
                      !.pdf = [call EXCEPT !.downloads = @ + 1]]

\* fetchPaperMetadata settles
MetadataResolve(ok, title) ==
    /\ paper.pc = "metadata"
    /\ IF ok
       THEN /\ paper' = downloadPDF(paper, vault, title)
            /\ UNCHANGED view
       ELSE /\ paper' = loadPaperFailed(paper, <<"Paper not found on arXiv">>)
            /\ view' = [view EXCEPT !.screen = render(view, NoPaper)]
    /\ UNCHANGED <<settings, calls, chatVars, quiz, explain, recap, vault, dispatched>>

\* vault.createFolder of downloadPDF settles and the download goes out; it
\* rejects when the folder is there by now
PdfFolderCreated ==
    /\ paper.pc = "pdf.mkdir"
    /\ IF paperPDFFolder \in vault.folders
       THEN /\ paper' = loadPaperFailed([paper EXCEPT !.pdf.outcome = "threw"],
                                        <<"Folder already exists.">>)
            /\ view' = [view EXCEPT !.screen = render(view, NoPaper)]
            /\ UNCHANGED vault
       ELSE /\ vault' = [vault EXCEPT !.folders = @ \cup {paperPDFFolder}]
            /\ paper' = [paper EXCEPT !.pc = "pdf.download", !.pdf.downloads = @ + 1]
            /\ UNCHANGED view
    /\ UNCHANGED <<settings, calls, chatVars, quiz, explain, recap, dispatched>>

\* requestUrl of downloadPDF settles
DownloadResolve(ok) ==
    /\ paper.pc = "pdf.download"
    /\ IF ok
       THEN /\ paper' = [paper EXCEPT !.pc = "pdf.save"]
            /\ UNCHANGED view
       ELSE /\ paper' = loadPaperFailed([paper EXCEPT !.pdf.outcome = "threw"],
                                        <<"Request failed">>)
            /\ view' = [view EXCEPT !.screen = render(view, NoPaper)]
    /\ UNCHANGED <<settings, calls, chatVars, quiz, explain, recap, vault, dispatched>>

\* vault.createBinary of downloadPDF settles: it rejects when the path is
\* taken by now
PdfSaved ==
    /\ paper.pc = "pdf.save"
    /\ IF paper.pdf.path \in vault.files
       THEN /\ paper' = loadPaperFailed([paper EXCEPT !.pdf.outcome = "threw"],
                                        <<"File already exists.">>)
            /\ view' = [view EXCEPT !.screen = render(view, NoPaper)]
            /\ UNCHANGED vault
       ELSE /\ vault' = [vault EXCEPT !.files = @ \cup {paper.pdf.path}]
            /\ paper' = [paper EXCEPT !.pc = "extract",
                                      !.pdf.created = @ \cup {paper.pdf.path},
                                      !.pdf.outcome = "returned",
                                      !.pdf.result = paper.pdf.path]
            /\ UNCHANGED view
    /\ UNCHANGED <<settings, calls, chatVars, quiz, explain, recap, dispatched>>

\* extractPDFText settles
ExtractResolve(ok) ==
    /\ paper.pc = "extract"
    /\ LET p2 == IF ok
                 THEN [paper EXCEPT !.pc = "idle",
                                    !.paperAnalysis = [null |-> FALSE,
                                                       title |-> paper.title,
                                                       pdfFile |-> paper.pdf.result]]
                 ELSE loadPaperFailed(paper, <<"Failed to extract text from PDF">>)
       IN /\ paper' = p2
          /\ view' = [view EXCEPT !.screen = render(view, p2)]
    /\ UNCHANGED <<settings, calls, chatVars, quiz, explain, recap, vault, dispatched>>

\* "Back" on the configuration screen
PaperBack ==
    /\ view.screen = "paper.config"
    /\ paper' = [paper EXCEPT !.paperAnalysis = NullAnalysis]
    /\ view' = [view EXCEPT !.screen = render(view, NoPaper)]
    /\ UNCHANGED <<settings, calls, chatVars, quiz, explain, recap, vault, dispatched>>

\* the catch block of generatePaperSummary
generatePaperSummaryFailed(p, message) ==
    [p EXCEPT !.pc = "idle",
              !.notice = <<"Failed to generate summary: ">> \o message]

\* the change event of the "Advanced Scraping (AlphaXiv)" checkbox
ToggleAlphaXiv ==
    /\ view.screen = "paper.input"
    /\ paper' = [paper EXCEPT !.enableAlphaXiv = ~@]
    /\ UNCHANGED <<settings, calls, chatVars, view, quiz, explain, recap, vault,
                   dispatched>>

\* click on "Generate Summary": the key is read and handed to streamAI as it
\* is; with AlphaXiv enabled its pages are fetched first
generatePaperSummary ==
    /\ view.screen = "paper.config"
    /\ paper.pc = "idle"
    /\ ~paper.paperAnalysis.null
    /\ view' = [view EXCEPT !.screen = "paper.generating"]
    /\ IF paper.enableAlphaXiv
       THEN /\ paper' = [paper EXCEPT !.pc = "alphaxiv", !.options = NoOptions]
            /\ UNCHANGED dispatched
       ELSE /\ paper' = [paper EXCEPT !.pc = "summary"]
            /\ dispatched' = dispatched \cup
                   {Request("paper", getModelProvider(settings),
                            getCurrentApiKey(settings))}
    /\ UNCHANGED <<settings, calls, chatVars, quiz, explain, recap, vault>>

\* fetchArticle and fetchResources of the AlphaXiv service settle (both
\* catch their errors; the paper has no podcast), then streamAI is called
AlphaXivResolve(article, transcript) ==
    /\ paper.pc = "alphaxiv"
    /\ IF paper.paperAnalysis.null
       THEN /\ paper' = generatePaperSummaryFailed(paper,
                            <<"Cannot read properties of null">>)
            /\ view' = [view EXCEPT !.screen = render(view, paper)]
            /\ UNCHANGED dispatched
       ELSE /\ paper' = [paper EXCEPT
                   !.pc = "summary",
                   !.options = [NoOptions EXCEPT !.alphaxivUrl = TRUE,
                                                 !.alphaxivArticle = article,
                                                 !.transcriptText = transcript]]
            /\ dispatched' = dispatched \cup
                   {Request("paper", getModelProvider(settings),
                            getCurrentApiKey(settings))}
            /\ UNCHANGED view
    /\ UNCHANGED <<settings, calls, chatVars, quiz, explain, recap, vault>>

\* createPaperNote up to its first await that waits
createPaperNote(p, v, title) ==
    LET notePath == notePathOf(title)
        call == [NoVaultCall EXCEPT !.path = notePath,
                                    !.existed = notePath \in v.files]
        create == [call EXCEPT !.content = PlainNote]
    IN IF notePath \in v.files
       THEN [p EXCEPT !.pc = "idle",
                      !.notice = <<"Note already exists. Opening existing note.">>,
                      !.note = [call EXCEPT !.outcome = "returned",
                                            !.result = notePath]]
       ELSE IF paperNotesFolder \notin v.folders
       THEN [p EXCEPT !.pc = "note.mkdir", !.note = create]
       ELSE [p EXCEPT !.pc = "note.create", !.note = create]

\* createAdvancedPaperNote up to its first await that waits: the read of the
\* existing note, or the creation of the folder or of the note
createAdvancedPaperNote(p, v, title) ==
    LET notePath == notePathOf(title)
        call == [NoVaultCall EXCEPT !.path = notePath,
                                    !.existed = notePath \in v.files]
        create == [call EXCEPT !.content = AdvancedNote(p.options)]
    IN IF notePath \in v.files
       THEN [p EXCEPT !.pc = "advanced.read", !.note = call]
       ELSE IF paperNotesFolder \notin v.folders
       THEN [p EXCEPT !.pc = "note.mkdir", !.note = create]
       ELSE [p EXCEPT !.pc = "note.create", !.note = create]

\* streamAI of generatePaperSummary settles
SummaryResolve(ok) ==
    /\ paper.pc = "summary"
    /\ LET p2 == IF ~ok
                 THEN generatePaperSummaryFailed(paper, <<"API Error">>)
                 ELSE IF paper.paperAnalysis.null
                 THEN generatePaperSummaryFailed(paper,
                          <<"Cannot read properties of null">>)
                 ELSE IF paper.enableAlphaXiv
                 THEN createAdvancedPaperNote(paper, vault, paper.paperAnalysis.title)
                 ELSE createPaperNote(paper, vault, paper.paperAnalysis.title)
       IN /\ paper' = p2
          /\ view' = [view EXCEPT !.screen =
                          IF p2.pc # "idle" THEN view.screen
                          ELSE IF p2.note.outcome = "returned" /\ ok
                                  /\ ~paper.paperAnalysis.null
                               THEN "paper.success"
                               ELSE render(view, p2)]
    /\ UNCHANGED <<settings, calls, chatVars, quiz, explain, recap, vault, dispatched>>

\* vault.createFolder of createPaperNote settles; it rejects when the folder
\* is there by now
NoteFolderCreated ==
    /\ paper.pc = "note.mkdir"
    /\ IF paperNotesFolder \in vault.folders
       THEN /\ paper' = generatePaperSummaryFailed(
                            [paper EXCEPT !.note.outcome = "threw"],
                            <<"Folder already exists.">>)
            /\ view' = [view EXCEPT !.screen = render(view, paper)]
            /\ UNCHANGED vault
       ELSE /\ vault' = [vault EXCEPT !.folders = @ \cup {paperNotesFolder}]
            /\ paper' = [paper EXCEPT !.pc = "note.create"]
            /\ UNCHANGED view
    /\ UNCHANGED <<settings, calls, chatVars, quiz, explain, recap, dispatched>>

\* vault.create of createPaperNote settles: it rejects when the path is taken
\* by now
NoteCreated ==
    /\ paper.pc = "note.create"
    /\ IF paper.note.path \in vault.files
       THEN /\ paper' = generatePaperSummaryFailed(
                            [paper EXCEPT !.note.outcome = "threw"],
                            <<"File already exists.">>)
            /\ view' = [view EXCEPT !.screen = render(view, paper)]
            /\ UNCHANGED vault
       ELSE /\ vault' = [vault EXCEPT !.files = @ \cup {paper.note.path},
                                      !.content[paper.note.path] = paper.note.content]
            /\ paper' = [paper EXCEPT !.pc = "idle",
                                      !.note.created = @ \cup {paper.note.path},
                                      !.note.outcome = "returned",
                                      !.note.result = paper.note.path]
            /\ view' = [view EXCEPT !.screen = "paper.success"]
    /\ UNCHANGED <<settings, calls, chatVars, quiz, explain, recap, dispatched>>

\* `await this.app.vault.read(existingNote)` of createAdvancedPaperNote
\* settles: the note is returned as it is when it holds 'alphaxiv_url:';
\* otherwise the content to append is built (the folder of the note exists)
\* and the note is read again
AdvancedNoteRead ==
    /\ paper.pc = "advanced.read"
    /\ LET existingContent == vault.content[paper.note.path] IN
       IF includes(existingContent, "alphaxiv_url:")
       THEN /\ paper' = [paper EXCEPT
                   !.pc = "idle",
                   !.notice = <<"AlphaXiv content already exists in this note.">>,
                   !.note.outcome = "returned",
                   !.note.result = paper.note.path]
            /\ view' = [view EXCEPT !.screen = "paper.success"]
       ELSE /\ paper' = [paper EXCEPT
                   !.pc = "advanced.append",
                   !.note.content = buildAlphaXivContent(paper.options)]
            /\ UNCHANGED view
    /\ UNCHANGED <<settings, calls, chatVars, quiz, explain, recap, vault, dispatched>>

\* the second read of the existing note settles, vault.modify is called
AdvancedNoteReadAgain ==
    /\ paper.pc = "advanced.append"
    /\ paper' = [paper EXCEPT
           !.pc = "advanced.modify",
           !.note.content = vault.content[paper.note.path]
                            \o <<"---", "## AlphaXiv Content Added">> \o @]
    /\ UNCHANGED <<settings, calls, chatVars, view, quiz, explain, recap, vault,
                   dispatched>>

\* vault.modify settles
AdvancedNoteModified ==
    /\ paper.pc = "advanced.modify"
    /\ vault' = [vault EXCEPT !.content[paper.note.path] = paper.note.content]
    /\ paper' = [paper EXCEPT
           !.pc = "idle",
           !.notice = <<"AlphaXiv content added to existing note.">>,
           !.note.outcome = "returned",
           !.note.result = paper.note.path]
    /\ view' = [view EXCEPT !.screen = "paper.success"]
    /\ UNCHANGED <<settings, calls, chatVars, quiz, explain, recap, dispatched>>

\* "Done" on the success screen
PaperDone ==
    /\ view.screen = "paper.success"
    /\ paper' = [paper EXCEPT !.paperAnalysis = NullAnalysis]
    /\ view' = [view EXCEPT !.selectedCategory = "", !.selectedFeature = "",
                            !.screen = "menu"]
    /\ UNCHANGED <<settings, calls, chatVars, quiz, explain, recap, vault, dispatched>>

\* a file appears in the vault that this import did not create
ExternalCreate(path) ==
    /\ paper.external < MaxExternal
    /\ path \notin vault.files
    /\ vault' = [vault EXCEPT !.files = @ \cup {path},
                              !.folders = @ \cup {path[1]},
                              !.content[path] =
                                  IF path[3] = ".md" THEN PlainNote ELSE <<>>]
    /\ paper' = [paper EXCEPT !.external = @ + 1]
    /\ UNCHANGED <<settings, calls, chatVars, view, quiz, explain, recap, dispatched>>

\* a category button of the main menu (disabled without a key)
SelectCategory(category) ==
    /\ view.screen = "menu"
    /\ getCurrentApiKey(settings) # ""
    /\ LET v2 == [view EXCEPT !.selectedCategory = category, !.selectedFeature = ""]
       IN view' = [v2 EXCEPT !.screen = render(v2, paper)]
    /\ UNCHANGED <<settings, calls, chatVars, quiz, explain, recap, paper, vault,
                   dispatched>>

(***************************************************************************)
(* Specifications                                                          *)
(***************************************************************************)
KeyFor(provider) ==
    CASE provider = "openai" -> "key-openai"
      [] provider = "deepseek" -> "key-deepseek"
      [] OTHER -> "key-gemini"

DEFAULT_SETTINGS ==
    [model |-> "gemini-2.0-flash", customModels |-> <<>>,
     geminiApiKey |-> "", openaiApiKey |-> "", deepseekApiKey |-> ""]

ConfiguredSettings ==
    {[DEFAULT_SETTINGS EXCEPT !.model = AVAILABLE_MODELS[i].id,
                              !.geminiApiKey = KeyFor("gemini"),
                              !.openaiApiKey = KeyFor("openai"),
                              !.deepseekApiKey = KeyFor("deepseek")] :
        i \in 1..Len(AVAILABLE_MODELS)}

\* everything but the settings, the vault and the quiz on screen
InitRest ==
    /\ calls = [r \in ReqIds |-> NoCall]
    /\ gen = [r \in ReqIds |-> NoGen]
    /\ chatSessions = << <<>> >>
    /\ currentChatSession = 1
    /\ isStreamingChat = FALSE
    /\ isRequestInFlight = FALSE
    /\ currentAbortController = 0
    /\ chatInputDisabled = FALSE
    /\ sendButtonDisabled = FALSE
    /\ explain = NoExplain
    /\ recap = NoRecap
    /\ paper = NoPaper
    /\ dispatched = {}

InitCommon == InitRest /\ view = MainMenu /\ quiz = NoQuiz

\* streamAI called by a caller that may abort it
Init == settings \in ConfiguredSettings /\ InitCommon /\ vault = EmptyVault
Next ==
    \/ \E r \in ReqIds : CallStreamAI(r)
    \/ \E r \in ReqIds : AbortCall(r)
    \/ \E r \in ReqIds : StreamStep(r)
Spec == Init /\ [][Next]_vars

\* the chat view
NextChat ==
    \/ \E r \in ReqIds : sendChatMessage(r)
    \/ \E r \in ReqIds : ResolveDone(r)
    \/ \E r \in ReqIds : StreamStep(r)
    \/ stopChatResponse
    \/ createNewChatSession
    \/ \E k \in 1..MaxSessions : switchChatSession(k)
SpecChat == Init /\ [][NextChat]_vars

\* the settings tab and the dispatch of requests
InitSettings == settings = DEFAULT_SETTINGS /\ InitCommon /\ vault = EmptyVault
NextSettings ==
    \/ \E value \in SelectableModels(settings) : SelectModel(value)
    \/ \E i \in 1..Len(PROVIDERS) : \E id \in CustomModelIds :
           showAddModelDialog(PROVIDERS[i], id)
    \/ \E id \in CustomModelIds : DeleteCustomModel(id)
    \/ \E i \in 1..Len(PROVIDERS) : \E value \in {"", KeyFor(PROVIDERS[i])} :
           SetApiKey(PROVIDERS[i], value)
    \/ \E r \in ReqIds : CallStreamAI(r)
SpecSettings == InitSettings /\ [][NextSettings]_vars

\* the key field of the provider in use is edited while a feature is open
EditKey ==
    \E value \in {"", KeyFor(getModelProvider(settings))} :
        SetApiKey(getModelProvider(settings), value)

\* the quiz
NextQuiz ==
    \/ SelectCategory("study")
    \/ SelectFeature("quiz")
    \/ \E noteName \in {"", "note"} : QuizGenerateClick(noteName)
    \/ \E found \in BOOLEAN : QuizNoteRead(found)
    \/ QuizLanguageResolve
    \/ \E response \in ResponsesFor(quiz.provider, QuizTexts) :
           QuizQuestionsResolve(response)
    \/ \E answerIndex \in 0..3 : SelectAnswer(answerIndex)
    \/ nextQuestion
    \/ BackToSetup
    \/ EditKey
SpecQuiz == Init /\ [][NextQuiz]_vars

\* the explainer
NextExplain ==
    \/ SelectCategory("study")
    \/ SelectFeature("explain")
    \/ \E lvl \in {"Novice", "University"} : SelectLevel(lvl)
    \/ \E value \in {<<>>, <<"text">>} : ExplainInput(value)
    \/ explainText
    \/ \E i \in 1..MaxPending :
           \E response \in ResponsesFor(getModelProvider(settings), ExplainTexts) :
               ExplainResolve(i, response)
    \/ EditKey
SpecExplain == Init /\ [][NextExplain]_vars

\* the recap
NextRecap ==
    \/ SelectCategory("study")
    \/ SelectFeature("recap")
    \/ \E value \in {<<"text">>} : RecapInput(value)
    \/ \E n \in 1..MaxRecapCount : RecapSelectCount(n)
    \/ generateRecapQuestions
    \/ \E i \in 1..MaxPending :
           \E response \in ResponsesFor(getModelProvider(settings), RecapTexts) :
               RecapQuestionsResolve(i, response)
    \/ \E answer \in {<<>>, <<"answer">>} : handleRecapAnswer(answer)
    \/ \E i \in 1..MaxPending :
           \E response \in ResponsesFor(getModelProvider(settings), FeedbackTexts) :
               RecapFeedbackResolve(i, response)
    \/ \E id \in 1..MaxLoaders : LoaderTick(id)
    \/ RecapNext
    \/ RecapBackToMenu
    \/ EditKey
SpecRecap == Init /\ [][NextRecap]_vars

\* the paper importer, on a vault that may hold files of earlier imports
InitPaper ==
    /\ settings \in ConfiguredSettings
    /\ InitCommon
    /\ vault \in Vaults
NextPaper ==
    \/ SelectCategory("research")
    \/ \E urlInput \in {"", "invalid", "2301.00001"} : loadPaper(urlInput)
    \/ \E ok \in BOOLEAN, title \in Titles : MetadataResolve(ok, title)
    \/ PdfFolderCreated
    \/ \E ok \in BOOLEAN : DownloadResolve(ok)
    \/ PdfSaved
    \/ \E ok \in BOOLEAN : ExtractResolve(ok)
    \/ PaperBack
    \/ generatePaperSummary
    \/ \E ok \in BOOLEAN : SummaryResolve(ok)
    \/ NoteFolderCreated
    \/ NoteCreated
    \/ PaperDone
    \/ \E path \in FilePaths : ExternalCreate(path)
    \/ EditKey
SpecPaper == InitPaper /\ [][NextPaper]_vars

\* the paper importer with the AlphaXiv checkbox
InitAdvanced ==
    /\ settings = [DEFAULT_SETTINGS EXCEPT !.geminiApiKey = KeyFor("gemini")]
    /\ InitCommon
    /\ vault \in Vaults
NextAdvanced ==
    \/ SelectCategory("research")
    \/ ToggleAlphaXiv
    \/ \E urlInput \in {"2301.00001"} : loadPaper(urlInput)
    \/ \E title \in {"A-B"} : MetadataResolve(TRUE, title)
    \/ PdfFolderCreated
    \/ DownloadResolve(TRUE)
    \/ PdfSaved
    \/ ExtractResolve(TRUE)
    \/ generatePaperSummary
    \/ \E article \in BOOLEAN : AlphaXivResolve(article, FALSE)
    \/ \E ok \in BOOLEAN : SummaryResolve(ok)
    \/ NoteFolderCreated
    \/ NoteCreated
    \/ AdvancedNoteRead
    \/ AdvancedNoteReadAgain
    \/ AdvancedNoteModified
    \/ PaperDone
SpecAdvanced == InitAdvanced /\ [][NextAdvanced]_vars

\* the score of a test: the last question of a test of every length, after
\* every count of correct answers
MaxScoreQuestions == 40
ScoreQuestion == processQuestion("E0").value[1]
InitScore ==
    /\ settings \in {s \in ConfiguredSettings : s.model = DEFAULT_SETTINGS.model}
    /\ InitRest
    /\ vault = EmptyVault
    /\ view = [selectedCategory |-> "study", selectedFeature |-> "quiz",
               screen |-> "quiz.test"]
    /\ \E length \in 1..MaxScoreQuestions : \E correct \in 0..(length - 1) :
           quiz = [NoQuiz EXCEPT !.testData =
                       [null |-> FALSE,
                        questions |-> [i \in 1..length |-> ScoreQuestion],
                        currentQuestion |-> length - 1,
                        selectedAnswer |-> NoAnswer,
                        answered |-> FALSE,
                        correctAnswers |-> correct]]
NextScore ==
    \/ \E answerIndex \in 0..1 : SelectAnswer(answerIndex)
    \/ nextQuestion
    \/ BackToSetup
SpecScore == InitScore /\ [][NextScore]_vars

\* the extraction of the questions: generateTest suspended at the request
\* for the questions, answered with every text
InitExtract ==
    /\ settings \in ConfiguredSettings
    /\ calls = [r \in ReqIds |-> NoCall]
    /\ gen = [r \in ReqIds |-> NoGen]
    /\ chatSessions = << <<>> >>
    /\ currentChatSession = 1
    /\ isStreamingChat = FALSE
    /\ isRequestInFlight = FALSE
    /\ currentAbortController = 0
    /\ chatInputDisabled = FALSE
    /\ sendButtonDisabled = FALSE
    /\ explain = NoExplain
    /\ recap = NoRecap
    /\ paper = NoPaper
    /\ vault = EmptyVault
    /\ view = [selectedCategory |-> "study", selectedFeature |-> "quiz",
               screen |-> "quiz.setup"]
    /\ quiz = [NoQuiz EXCEPT !.isGenerating = TRUE, !.buttonDisabled = TRUE,
                             !.pc = "gen", !.provider = getModelProvider(settings),
                             !.requests = 2]
    /\ dispatched = {Request("quiz", getModelProvider(settings),
                             getCurrentApiKey(settings))}
NextExtract ==
    \/ \E response \in ResponsesFor(quiz.provider, QuizTexts) :
           QuizQuestionsResolve(response)
    \/ \E answerIndex \in 0..1 : SelectAnswer(answerIndex)
    \/ nextQuestion
    \/ BackToSetup
SpecExtract == InitExtract /\ [][NextExtract]_vars

\* the Gemini adapter: either an explanation waits for the response to its
\* callAI request, or a streamAI call iterates over the stream of the SDK
InitGemini ==
    /\ settings = [DEFAULT_SETTINGS EXCEPT !.geminiApiKey = KeyFor("gemini")]
    /\ gen = [r \in ReqIds |-> NoGen]
    /\ chatSessions = << <<>> >>
    /\ currentChatSession = 1
    /\ isStreamingChat = FALSE
    /\ isRequestInFlight = FALSE
    /\ currentAbortController = 0
    /\ chatInputDisabled = FALSE
    /\ sendButtonDisabled = FALSE
    /\ quiz = NoQuiz
    /\ recap = NoRecap
    /\ paper = NoPaper
    /\ vault = EmptyVault
    /\ \E data \in GeminiData :
          \/ /\ view = [selectedCategory |-> "study", selectedFeature |-> "explain",
                        screen |-> "explain"]
             /\ explain = [NoExplain EXCEPT
                    !.explainLevel = "Novice",
                    !.explainInput = <<"text">>,
                    !.explainResponseEl = "loading",
                    !.pending = <<[provider |-> "gemini",
                                   response |-> HttpResponse("gemini", 200, data)]>>]
             /\ dispatched = {Request("explain", "gemini", KeyFor("gemini"))}
             /\ calls = [r \in ReqIds |-> NoCall]
          \/ /\ view = MainMenu
             /\ explain = NoExplain
             /\ dispatched = {}
             /\ \E stream \in {<<data>>, <<GChunkA, data>>} :
                    calls = [r \in ReqIds |->
                        IF r = 1
                        THEN connectResolved(
                                 streamAI(NoCall, "direct", "gemini", KeyFor("gemini"),
                                          settings),
                                 200, stream)
                        ELSE NoCall]
NextGemini ==
    \/ /\ explain.pending # <<>>
       /\ ExplainResolve(1, explain.pending[1].response)
    \/ ChunkArrive(1)
    \/ StreamEnd(1)
    \/ AbortCall(1)
SpecGemini == InitGemini /\ [][NextGemini]_vars

(***************************************************************************)
(* Properties                                                              *)
(***************************************************************************)
ChatInFlight(k) ==
    {r \in ReqIds : /\ calls[r].caller = "chat"
                    /\ InFlight(calls[r])
                    /\ gen[r].session = k}

countTyping(messages) == Len(SelectSeq(messages, LAMBDA m : m.id = "typing"))

Contains(messages, m) == \E i \in 1..Len(messages) : messages[i] = m

InSomeSession(m) ==
    \E k \in 1..Len(chatSessions) : Contains(chatSessions[k], m)

\* the lines of a body: split on the newline, without the empty rest after
\* the last newline
LinesOf(body) ==
    LET ls == split(body, Newline) IN
    IF ls[Len(ls)] = <<>> THEN SubSeq(ls, 1, Len(ls) - 1) ELSE ls

IsDataLine(line) == Len(line) >= 1 /\ Head(line) = DataPrefix
IsWellFormed(line) ==
    IsDataLine(line) /\ (Tail(line) = <<DoneSentinel>> \/ JSONparse(Tail(line)).ok)
CarriesText(line) ==
    /\ IsDataLine(line)
    /\ JSONparse(Tail(line)).ok
    /\ JSONparse(Tail(line)).content # <<>>

\* the text fragments of the lines that carry text, in order
TextsOf(lines) ==
    LET sel == SelectSeq(lines, CarriesText) IN
    [i \in 1..Len(sel) |-> JSONparse(Tail(sel[i])).content]

GTextsOf(stream) ==
    LET sel == SelectSeq(stream, LAMBDA ch : extractTextFromGeminiChunk(ch) # <<>>) IN
    [i \in 1..Len(sel) |-> extractTextFromGeminiChunk(sel[i])]

Finished(c) == c.outcome \in {"returned", "threw"}
\* the call ended by a failure of the transport or of the provider
Failed(c) == c.error \in {"NetworkError", "API Error"}

\* C1: at most one AI request is in flight per chat session at any time.
C1_OneRequestInFlight ==
    \A k \in 1..Len(chatSessions) : Cardinality(ChatInFlight(k)) <= 1

\* C2: a call whose cancellation was signalled after k chunks had been
\* delivered (k = 0 included) returns the concatenation of exactly those k
\* chunks, and onChunk is not invoked after the signal (calls that end by a
\* failure of the transport or of the provider are not in the scope).
C2_CancelReturnsDelivered ==
    \A r \in ReqIds :
        (/\ Finished(calls[r])
         /\ calls[r].abortedAt >= 0
         /\ ~Failed(calls[r]))
        => /\ calls[r].outcome = "returned"
           /\ Len(calls[r].emitted) = calls[r].abortedAt
           /\ calls[r].fullResponse = Concat(calls[r].emitted)

\* C3: cancellation never raises: no call ends by throwing the error of
\* its aborted signal.
C3_CancelNeverRaises ==
    \A r \in ReqIds :
        calls[r].aborted => ~(calls[r].outcome = "threw" /\ calls[r].error = "AbortError")

\* C4: after Stop was pressed while chunks of the response had been
\* received, the assistant message of the request stays in a message list
\* and no error message takes its place.
C4_StoppedMessageKept ==
    \A r \in ReqIds :
        (/\ calls[r].caller = "chat"
         /\ calls[r].abortedAt > 0
         /\ ~Failed(calls[r]))
        => /\ InSomeSession(AssistantMessage(r))
           /\ ~InSomeSession(ErrorMessage(r))

\* C5: a call that is neither cancelled nor failed and received only
\* well-formed vendor chunks has invoked onChunk once per chunk that
\* carries text, in arrival order, and returns their concatenation.
C5_ChunksInOrder ==
    \A r \in ReqIds :
        (calls[r].outcome = "returned" /\ ~calls[r].aborted)
        => /\ (calls[r].provider \in {"openai", "deepseek"}
               /\ \A i \in 1..Len(LinesOf(calls[r].body)) :
                      IsWellFormed(LinesOf(calls[r].body)[i]))
              => /\ calls[r].emitted = TextsOf(LinesOf(calls[r].body))
                 /\ calls[r].fullResponse = Concat(calls[r].emitted)
           /\ (calls[r].provider = "gemini")
              => /\ calls[r].emitted = GTextsOf(calls[r].stream)
                 /\ calls[r].fullResponse = Concat(calls[r].emitted)

\* C6: every dispatched request goes to the provider its model id is
\* registered under: provider, API key and endpoint are those of the
\* model's own provider.
C6_ProviderMatchesModel ==
    \A r \in ReqIds :
        calls[r].pc \notin {"idle", "wait"} /\ calls[r].outcome # "forgotten"
        => /\ calls[r].provider = calls[r].modelProvider
           /\ calls[r].endpoint = EndpointOf(calls[r].modelProvider)
           /\ calls[r].apiKey \in {"", KeyFor(calls[r].modelProvider)}

\* C7: cancellation tokens are per request: the controller handed to a
\* call is not aborted, and the end of one request (its abort, its cleanup)
\* neither aborts nor clears the controller of a later request.
C7_TokensPerRequest ==
    [][\A r1 \in ReqIds :
        /\ (~InFlight(calls[r1]) /\ InFlight(calls[r1])') => ~calls'[r1].aborted
        /\ \A r2 \in {q \in ReqIds : q > r1} :
              (/\ InFlight(calls[r1])
               /\ ~InFlight(calls[r1])'
               /\ currentAbortController = r2)
              => /\ currentAbortController' = r2
                 /\ calls'[r2].aborted = calls[r2].aborted]_vars

\* C8: when no chat request is in flight no message list holds a 'typing'
\* message, and no list ever holds more than one.
C8_TypingRemoved ==
    /\ (\A r \in ReqIds : gen[r].pc \in {"idle", "done"})
       => \A k \in 1..Len(chatSessions) : countTyping(chatSessions[k]) = 0
    /\ \A k \in 1..Len(chatSessions) : countTyping(chatSessions[k]) <= 1

\* C9: in the line decoder a 'data: ' line whose payload is not JSON, and
\* the '[DONE]' line, emit nothing and do not end the stream: each read
\* emits exactly the text of its lines that parse and carry text, in order,
\* and the call goes on to the next read.
C9_MalformedLineSkipped ==
    [][\A r \in ReqIds :
        (calls[r].pc = "read" /\ calls'[r].pos > calls[r].pos)
        => LET value == SubSeq(calls[r].body, calls[r].pos + 1, calls'[r].pos)
               texts == TextsOf(split(value, Newline))
           IN /\ calls'[r].emitted = calls[r].emitted \o texts
              /\ calls'[r].fullResponse = calls[r].fullResponse \o Concat(texts)
              /\ calls'[r].pc = "read"]_vars

C9_Witness ==
    \E r \in ReqIds :
        /\ calls[r].outcome = "returned"
        /\ calls[r].body = JoinLines(<<LineA, LineMalformed, LineB>>)
        /\ calls[r].emitted = << <<"a">>, <<"b">> >>
        /\ calls[r].fullResponse = <<"a", "b">>

\* C10: a response with a non-success status makes the call throw before
\* any read of the body, with no chunk emitted and no text accumulated.
C10_StatusErrorAtomic ==
    \A r \in ReqIds :
        (calls[r].status # 0 /\ calls[r].status \notin 200..299)
        => /\ calls[r].outcome = "threw"
           /\ calls[r].error = "API Error"
           /\ ~calls[r].readIssued
           /\ calls[r].emitted = <<>>
           /\ calls[r].fullResponse = <<>>

C10_Witness ==
    \E r \in ReqIds :
        /\ calls[r].provider = "openai"
        /\ calls[r].status = 503
        /\ calls[r].outcome = "threw"


(***************************************************************************)
(* Quiz: extraction, answers, score                                        *)
(***************************************************************************)
\* C11: question extraction is all-or-nothing.  When the generation ends and
\* an object of the parsed array has no question text, options that are no
\* array, a correctAnswer that is no number or one outside 0..options.length-1,
\* generateQuestionsWithAI has raised an error: the error notice is shown
\* and testData is what it was, whatever the other objects are.
C11_AllOrNothing ==
    [][(quiz.pc = "gen" /\ quiz'.pc = "idle" /\ quiz'.defects # {})
          => /\ quiz'.testData = quiz.testData
             /\ quiz'.notice = <<"Error generating test. Please try again.">>
             /\ view' = view]_vars

\* a generation has failed on a defective object while a test was loaded
C11_Witness ==
    /\ quiz.pc = "idle"
    /\ quiz.defects # {}
    /\ ~quiz.testData.null
    /\ quiz.notice = <<"Error generating test. Please try again.">>

\* C12: while a quiz is active, the correctAnswer of every question is an
\* integer index into its options: 0 <= correctAnswer < options.length.
C12_IntegerIndex ==
    ~quiz.testData.null =>
        \A i \in 1..Len(quiz.testData.questions) :
            LET q == quiz.testData.questions[i] IN
            /\ q.correctAnswer.d = 1
            /\ q.correctAnswer.n \in 0..(Len(q.options) - 1)

\* C13: selectAnswer(i) with answered = false sets selectedAnswer = i and
\* answered = true and adds 1 to correctAnswers exactly when i is the
\* correctAnswer of the current question; with answered = true or without a
\* test it changes nothing.
C13_SelectOnce ==
    [][\A i \in 0..3 :
          SelectAnswer(i) =>
              LET td == quiz.testData IN
              IF td.null \/ td.answered
              THEN quiz' = quiz
              ELSE LET q == td.questions[td.currentQuestion + 1]
                       gain == IF q.correctAnswer.d = 1 /\ q.correctAnswer.n = i
                               THEN 1 ELSE 0
                   IN /\ quiz'.testData.selectedAnswer = i
                      /\ quiz'.testData.answered
                      /\ quiz'.testData.correctAnswers = td.correctAnswers + gain
                      /\ quiz'.testData.currentQuestion = td.currentQuestion
                      /\ quiz'.testData.questions = td.questions]_vars

\* the second question answered correctly after the first one was
C13_Witness ==
    /\ view.screen = "quiz.test"
    /\ ~quiz.testData.null
    /\ quiz.testData.answered
    /\ quiz.testData.currentQuestion = 1
    /\ quiz.testData.correctAnswers = 2

\* C14: a Generate action issues exactly one request to the AI adapter
\* between entering Generating and reaching Ready or Error.
C14_OneRequestPerGenerate ==
    /\ quiz.requests <= 1
    /\ quiz.pc \in {"lang", "gen"} => quiz.requests = 1

\* C15: for each controller at most one AI request started by it is in
\* flight at any time.
C15_OneInFlight ==
    /\ Len(explain.pending) <= 1
    /\ Len(recap.pending) <= 1
    /\ quiz.pc \in {"lang", "gen"} => quiz.isGenerating

\* C16: a generation whose request has failed leaves the Generating state:
\* the recap shows "Generating questions..." only while its question request
\* is pending.
C16_FailureLeavesGenerating ==
    view.screen = "recap.loading" =>
        \E i \in 1..Len(recap.pending) : recap.pending[i].kind = "questions"

\* C17: when the question request fails with an HTTP status, the notice is
\* the one of that status: 503 temporarily unavailable, 401/403 check your
\* API key, 429 rate limited, 404 model unavailable.
C17_StatusNotice ==
    (quiz.pc = "idle" /\ quiz.status \in ErrorStatuses) =>
        quiz.notice =
            CASE quiz.status = 503 ->
                   <<"AI service is temporarily unavailable. Please try again in a few moments.">>
              [] quiz.status \in {401, 403} ->
                   <<"API key is invalid or has insufficient permissions. Please check your API key in settings.">>
              [] quiz.status = 429 ->
                   <<"API rate limit exceeded. Please wait a moment and try again.">>
              [] OTHER ->
                   <<"Selected model is not available. Please choose a different model in settings.">>

\* C18: no request is handed to callAI or streamAI with an empty API key.
C18_NoEmptyKeyDispatch == \A q \in dispatched : q.apiKey # ""

\* C19: the percentage reported for c correct answers out of n questions is
\* 100 * c / n rounded to the nearest integer, halves up, within 0..100,
\* and 67 for 2 out of 3.
C19_Percentage ==
    view.screen = "quiz.results" =>
        LET n == quiz.result.totalQuestions
            c == quiz.result.correctAnswers
        IN /\ quiz.result.percentage = (200 * c + n) \div (2 * n)
           /\ quiz.result.percentage \in 0..100
           /\ (c = 2 /\ n = 3) => quiz.result.percentage = 67

(***************************************************************************)
(* Paper importer: vault writes                                            *)
(***************************************************************************)
\* what C20 says of one call of downloadPDF or createPaperNote
CheckThenCreate(call) ==
    /\ call.existed =>
          /\ call.outcome = "returned"
          /\ call.result = call.path
          /\ call.downloads = 0
          /\ call.created = {}
    /\ (~call.existed /\ call.outcome = "returned") =>
          /\ call.result = call.path
          /\ call.created = {call.path}
          /\ call.path \in vault.files
    /\ call.outcome # "returned" => call.created = {}

\* C20: when a file exists at the target path, downloadPDF and
\* createPaperNote return it and download, create and modify nothing; when
\* none exists, the call that returns has created exactly one file, at that
\* path.
C20_CheckThenCreate ==
    /\ CheckThenCreate(paper.pdf)
    /\ CheckThenCreate(paper.note)

\* the PDF was in the vault and was returned as it is, the note was not and
\* has been created
C20_Witness ==
    /\ paper.pdf.existed
    /\ paper.pdf.outcome = "returned"
    /\ ~paper.note.existed
    /\ paper.note.outcome = "returned"
    /\ paper.note.created = {notePathOf(paper.title)}

(***************************************************************************)
(* Quiz: the walk through the questions                                    *)
(***************************************************************************)
\* C21: within one quiz (every step but the one in which a generation ends)
\* currentQuestion changes only through Next, taken on the test screen with
\* answered = true: it grows by exactly 1, selectedAnswer becomes null and
\* answered false.  Next at currentQuestion = questions.length - 1 shows the
\* results screen and changes neither currentQuestion nor correctAnswers.
C21_NextAdvances ==
    [][LET td == quiz.testData
           td2 == quiz'.testData
       IN /\ (/\ ~td.null
              /\ ~td2.null
              /\ ~(quiz.pc = "gen" /\ quiz'.pc = "idle")
              /\ td2.currentQuestion # td.currentQuestion)
                 => /\ nextQuestion
                    /\ td.answered
                    /\ td2.currentQuestion = td.currentQuestion + 1
                    /\ td2.selectedAnswer = NoAnswer
                    /\ ~td2.answered
                    /\ td2.correctAnswers = td.correctAnswers
          /\ (nextQuestion /\ td.currentQuestion = Len(td.questions) - 1)
                 => /\ view'.screen = "quiz.results"
                    /\ td2.currentQuestion = td.currentQuestion
                    /\ td2.correctAnswers = td.correctAnswers]_vars

\* Next has been taken from the first question and then from the last one
C21_Witness ==
    /\ view.screen = "quiz.results"
    /\ ~quiz.testData.null
    /\ quiz.testData.currentQuestion = 1
    /\ quiz.result.totalQuestions = 2

\* C22: while a quiz is active, questions is not empty,
\* 0 <= currentQuestion < questions.length, answered = false implies
\* selectedAnswer = null, and
\* 0 <= correctAnswers <= currentQuestion + (1 if answered else 0); the quiz
\* a generation ends with starts at currentQuestion = 0, correctAnswers = 0,
\* answered = false, selectedAnswer = null.
C22_QuizState ==
    /\ [](~quiz.testData.null =>
             LET td == quiz.testData IN
             /\ Len(td.questions) > 0
             /\ td.currentQuestion \in 0..(Len(td.questions) - 1)
             /\ (~td.answered => td.selectedAnswer = NoAnswer)
             /\ td.correctAnswers \in
                    0..(td.currentQuestion + IF td.answered THEN 1 ELSE 0))
    /\ [][(quiz.pc = "gen" /\ quiz'.pc = "idle" /\ quiz'.testData # quiz.testData)
             => /\ ~quiz'.testData.null
                /\ quiz'.testData.currentQuestion = 0
                /\ quiz'.testData.correctAnswers = 0
                /\ ~quiz'.testData.answered
                /\ quiz'.testData.selectedAnswer = NoAnswer]_vars

\* the first question was answered wrongly, the second and last one
\* correctly
C22_Witness ==
    /\ view.screen = "quiz.test"
    /\ ~quiz.testData.null
    /\ quiz.testData.answered
    /\ quiz.testData.currentQuestion = 1
    /\ Len(quiz.testData.questions) = 2
    /\ quiz.testData.correctAnswers = 1

(***************************************************************************)
(* Quiz: the bracket walk                                                  *)
(***************************************************************************)
\* '[' minus ']' among text[a..b]
BracketCount(text, a, b) ==
    Cardinality({i \in a..b : text[i] = "["}) - Cardinality({i \in a..b : text[i] = "]"})

\* the substring from the first '[' to the first later position where the
\* count is back at 0; <<>> when there is no such substring
BalancedSlice(text) ==
    LET opens == {i \in 1..Len(text) : text[i] = "["} IN
    IF opens = {} THEN <<>>
    ELSE LET a == CHOOSE i \in opens : \A j \in opens : i <= j
             closes == {b \in a..Len(text) : BracketCount(text, a, b) = 0}
         IN IF closes = {} THEN <<>>
            ELSE SubSeq(text, a, CHOOSE b \in closes : \A c \in closes : b <= c)

\* the generation ends as it does when JSON.parse has returned `parsed`
EndsAsParsed(parsed) ==
    IF ~parsed.ok \/ parsed.items = <<>>
    THEN /\ quiz'.testData = quiz.testData
         /\ quiz'.notice = UnableToParse
         /\ view' = view
    ELSE LET processedQuestions == mapQuestions(parsed.items) IN
         IF processedQuestions.ok
         THEN /\ ~quiz'.testData.null
              /\ quiz'.testData.questions = processedQuestions.questions
              /\ view'.screen = "quiz.test"
         ELSE /\ quiz'.testData = quiz.testData
              /\ quiz'.notice = <<"Error generating test. Please try again.">>
              /\ view' = view

\* the generation ends without questions: no array was found
EndsWithoutArray ==
    /\ quiz'.testData = quiz.testData
    /\ quiz'.notice = <<"Error generating test. Please try again.">>
    /\ view' = view

\* C23 as stated: the parser is handed exactly the substring from the first
\* '[' to the first later position where the count of '[' minus ']' is back
\* at 0, whatever stands before and after it; without such a substring the
\* extraction fails and produces no questions.
C23_ExactSubstring ==
    [][(quiz.pc = "gen" /\ quiz'.pc = "idle") =>
       \A response \in ResponsesFor(quiz.provider, QuizTexts) :
          LET r == callAI(quiz.provider, response) IN
          (QuizQuestionsResolve(response) /\ r.ok /\ r.text # <<>>)
              => IF BalancedSlice(r.text) = <<>> THEN EndsWithoutArray
                 ELSE EndsAsParsed(JSONparseArray(BalancedSlice(r.text)))]_vars

\* C23, amended: the candidate is that substring, whatever stands before and
\* after it; the parser is handed the candidate with every backslash
\* doubled, and the candidate itself only when that copy does not parse;
\* without a candidate the extraction fails and produces no questions.
C23_BalancedSlice ==
    [][(quiz.pc = "gen" /\ quiz'.pc = "idle") =>
       \A response \in ResponsesFor(quiz.provider, QuizTexts) :
          LET r == callAI(quiz.provider, response) IN
          (QuizQuestionsResolve(response) /\ r.ok /\ r.text # <<>>)
              => IF BalancedSlice(r.text) = <<>> THEN EndsWithoutArray
                 ELSE LET doubled ==
                              [i \in 1..(2 * Len(BalancedSlice(r.text))) |->
                                  BalancedSlice(r.text)[(i + 1) \div 2]]
                          escaped == SelectSeq(
                              [i \in 1..Len(doubled) |->
                                  IF i % 2 = 0 /\ doubled[i] # Backslash
                                  THEN "" ELSE doubled[i]],
                              LAMBDA t : t # "")
                          first == JSONparseArray(escaped)
                      IN EndsAsParsed(IF first.ok THEN first
                                      ELSE JSONparseArray(BalancedSlice(r.text)))]_vars

\* the quiz made of the object between prose and a stray ']', its escape
\* read as a backslash command
C23_Witness ==
    /\ view.screen = "quiz.test"
    /\ ~quiz.testData.null
    /\ Len(quiz.testData.questions) = 1
    /\ quiz.testData.questions[1].question = "$\\n$"

(***************************************************************************)
(* The Gemini adapter                                                      *)
(***************************************************************************)
\* the text of every part of every candidate, in order
TextOfCandidate(candidate) ==
    IF ~candidate.hasParts THEN <<>>
    ELSE Concat([i \in 1..Len(candidate.parts) |->
                    IF candidate.parts[i].isText THEN candidate.parts[i].text
                    ELSE <<>>])
AllText(data) ==
    IF ~data.hasCandidates THEN <<>>
    ELSE Concat([i \in 1..Len(data.candidates) |-> TextOfCandidate(data.candidates[i])])

\* C24: the non-streaming Gemini adapter returns the concatenation, in
\* order, of the text of every part of every candidate, skipping candidates
\* without a parts array and parts without a string text, and fails only
\* when this concatenation is empty; the streaming adapter emits this
\* concatenation for every chunk, and nothing for a chunk where it is empty.
C24_AllCandidatesAllParts ==
    /\ [][(explain.pending # <<>> /\ ExplainResolve(1, explain.pending[1].response))
             => LET data == explain.pending[1].response.data IN
                IF AllText(data) = <<>>
                THEN explain'.explainResponseEl = "error"
                ELSE /\ explain'.explainResponseEl = "response"
                     /\ explain'.explanationRaw = AllText(data)]_vars
    /\ [](\A r \in ReqIds :
             (calls[r].provider = "gemini" /\ ~calls[r].aborted)
                 => /\ calls[r].emitted =
                           SelectSeq([i \in 1..calls[r].spos |->
                                         AllText(calls[r].stream[i])],
                                     LAMBDA text : text # <<>>)
                    /\ calls[r].fullResponse = Concat(calls[r].emitted))

\* the explanation is the text of two parts of one candidate followed by
\* the text of two parts of another
C24_Witness ==
    /\ explain.explainResponseEl = "response"
    /\ explain.explanationRaw = <<"a", "b", "b", "a">>

(***************************************************************************)
(* Chat: the session of a reply, the controller of a request               *)
(***************************************************************************)
\* C25: the reply to a user message is written into the session that holds
\* that message: the assistant message and the error message of request r
\* are in no session but the one r was sent from, whatever session is
\* current when they are written.
C25_ReplyInSameSession ==
    \A r \in ReqIds : \A k \in 1..Len(chatSessions) :
        (Contains(chatSessions[k], AssistantMessage(r))
            \/ Contains(chatSessions[k], ErrorMessage(r)))
        => k = gen[r].session

\* C26: a streaming chat request can always be stopped: while a streamAI call
\* made by the chat is in flight and not aborted, currentAbortController is
\* the controller handed to that call and isStreamingChat is true.
C26_StoppableWhileStreaming ==
    \A r \in ReqIds :
        (calls[r].caller = "chat" /\ calls[r].pc \in {"fetch", "read", "connect", "iterate"}
            /\ ~calls[r].aborted)
        => /\ currentAbortController = r
           /\ isStreamingChat

(***************************************************************************)
(* Recap: feedback, loader, question index                                 *)
(***************************************************************************)
\* C27: recap feedback is indexed by question: the feedback on the answer to
\* question i is stored at recapFeedback[i] and at no other index.
C27_FeedbackByQuestion ==
    \A i, j \in 0..MaxRecapCount :
        recap.recapFeedback[j + 1] = FeedbackFor(i) => i = j

\* C28: the loader is tied to one feedback request: at most one interval of
\* startLoader is running, none is running when no feedback request is
\* pending, and a tick never replaces feedback by the placeholder text.
C28_LoaderPerRequest ==
    /\ [](Cardinality(recap.intervals) <= 1)
    /\ []((\A i \in 1..Len(recap.pending) : recap.pending[i].kind # "feedback")
             => recap.intervals = {})
    /\ [][\A j \in 1..(MaxRecapCount + 1) :
             (recap.recapFeedback[j] \notin {"", Thinking}
                 /\ recap'.recapQuestions = recap.recapQuestions)
             => recap'.recapFeedback[j] # Thinking]_vars

\* C29: while a question is shown, 0 <= recapIndex < recapQuestions.length.
C29_IndexInQuestions ==
    view.screen = "recap.question" =>
        recap.recapIndex \in 0..(Len(recap.recapQuestions) - 1)

(***************************************************************************)
(* Paper importer: the AlphaXiv section of a note                          *)
(***************************************************************************)
\* C30: createAdvancedPaperNote adds AlphaXiv content to an existing note at
\* most once: a note that holds the section "AlphaXiv Content Added" is
\* left as it is by every later call.
C30_AppendOnce ==
    [][\A path \in FilePaths :
          includes(vault.content[path], "## AlphaXiv Content Added")
              => vault'.content[path] = vault.content[path]]_vars

====
